---- MODULE Spec2Model ----
(***************************************************************************)
(* A model of the fdroid repository orchestration library                  *)
(* (src/src/repository/*.rs, src/src/aapt.rs, src/src/error.rs).           *)
(*                                                                         *)
(* The state is the part of the file system below the repository root that *)
(* the library reads and writes, plus a record `last` of the most recent   *)
(* library call: its name, argument, returned Result and the ordered trace *)
(* of file-system steps and external-tool runs it performed.               *)
(*                                                                         *)
(* Every public method is one action.  Whatever the code cannot decide     *)
(* (an I/O error, the way a spawned process ends) is an input of the       *)
(* action, drawn with \E in Next.                                          *)
(* A file-system call that returns an error is taken to have changed       *)
(* nothing; a process that does not exit with 0 likewise.                  *)
(***************************************************************************)
EXTENDS Integers, Sequences, FiniteSets, TLC

VARIABLES
    repoDir,      \* TRUE iff <root>/repo exists (a directory)
    repo,         \* entries of <root>/repo: name -> [kind, content]
    index,        \* <root>/repo/index-v1.json: None or Some(json document)
    icons,        \* files of <root>/repo/icons: name (token sequence) -> content
    metaDir,      \* TRUE iff <root>/metadata exists
    metadata,     \* set of application names with a metadata record
    unsignedKind, \* what <root>/unsigned is: "absent", "dir" or "file"
    unsigned,     \* files of <root>/unsigned: name -> content
    configFile,   \* <root>/config.yml: a YAML mapping, key -> scalar
    created,      \* ghost: the immutable fields as they were at creation
    last          \* ghost: the most recent call, see Call

vars == <<repoDir, repo, index, icons, metaDir, metadata, unsignedKind,
          unsigned, configFile, created, last>>

----------------------------------------------------------------------------
(* Bounds of the model *)

\* number of distinct apk contents fed to add_app / sign_app
NumApks == 2
\* largest archive_older value (a u8 in the code) written by set_config
MaxOlder == 1

----------------------------------------------------------------------------
(* Option<T> and Result<(), Error> *)

None == <<>>
Some(x) == <<x>>
IsSome(o) == Len(o) = 1
IsNone(o) == Len(o) = 0
Unwrap(o) == o[1]

\* Result<_, Error>: the variant of error.rs and what it carries
\* (the command line of Run, the reason of InvalidFile).
Ok == [tag |-> "Ok", info |-> ""]
Err(variant, info) == [tag |-> variant, info |-> info]
IsOk(r) == r.tag = "Ok"
IsErr(r) == r.tag # "Ok"

\* Result::map_err(|_| e)
map_err(r, e) == IF IsOk(r) THEN r ELSE e

\* the restriction of a function to its domain minus one key (fs::remove_file)
Without(f, k) == [x \in DOMAIN f \ {k} |-> f[x]]
\* f with k bound to v, k added to the domain if needed (fs::copy, fs::write)
With(f, k, v) == [x \in DOMAIN f \cup {k} |-> IF x = k THEN v ELSE f[x]]

RECURSIVE Join(_)
\* args.join(" ")
Join(args) ==
    IF args = <<>> THEN ""
    ELSE IF Len(args) = 1 THEN args[1]
    ELSE args[1] \o " " \o Join(Tail(args))

----------------------------------------------------------------------------
(* The artifacts handed to the library *)

Letters == <<"a", "b", "c", "d">>

ApkIds == 1..NumApks

\* What apk number id is: its package identifier and version code.
Apk(id) == [pkg |-> Letters[id], vc |-> id]

\* The text `aapt dump badging` prints for the file of content id, as the
\* sequence of its attr='value' items, every value a sequence of characters.
\* Content 0 is a file that is no apk: aapt prints nothing for it.  The
\* negative contents are files whose text lacks an item or has one that the
\* patterns of aapt.rs do not match.
Badging(id) ==
    IF id = 0 THEN <<>>
    ELSE IF id = -1 THEN << [attr |-> "name", val |-> <<"a">>] >>
    ELSE IF id = -2 THEN << [attr |-> "versionCode", val |-> <<"7">>] >>
    ELSE IF id = -3 THEN << [attr |-> "name", val |-> <<"a", "1">>],
                            [attr |-> "versionCode", val |-> <<"7">>] >>
    ELSE IF id = -4 THEN << [attr |-> "name", val |-> <<"a">>],
                            [attr |-> "versionCode", val |-> <<"x">>] >>
    ELSE << [attr |-> "name", val |-> <<Letters[id]>>],
            [attr |-> "versionCode", val |-> <<ToString(id)>>],
            [attr |-> "versionName", val |-> <<"1", ".", "0">>] >>

\* the contents whose text has no version code or no name to find
NoMatchApks == {0, -1, -2, -3, -4}

\* file name under which sign_app stages apk id (see UnsignedName)
SignedName(id) == Letters[id] \o "_" \o ToString(id) \o ".apk"

\* the file names add_app is called with
AddNames == <<"x.apk", "y.apk">>

\* Directory listing order of <root>/repo, as the external tool walks it.
NameOrder == [i \in 1..NumApks |-> SignedName(i)] \o AddNames

FileEntry(c) == [kind |-> "file", content |-> c]
DirEntry == [kind |-> "dir", content |-> 0]

----------------------------------------------------------------------------
(* serde_json::Value and the accessors the parser uses *)

\* A value is a record of its kind k and, under a field named after the
\* kind, what it holds.
JStr(s) == [k |-> "str", s |-> s]
JInt(i) == [k |-> "int", i |-> i]
JArr(s) == [k |-> "arr", a |-> s]
JObj(f) == [k |-> "obj", o |-> f]
JNull == [k |-> "null"]

\* Numbers of the model are integers of small magnitude: every one fits an
\* i64, and fits a u64 or a u32 iff it is not negative.

\* Value::get(key): None unless the value is an object holding the key
get(value, key) ==
    IF value.k = "obj" THEN
        IF key \in DOMAIN value.o THEN Some(value.o[key]) ELSE None
    ELSE None

\* Value::get(i) with a usize: None unless an array with more than i elements
get_index(value, i) ==
    IF value.k = "arr" THEN
        IF i + 1 <= Len(value.a) THEN Some(value.a[i + 1]) ELSE None
    ELSE None

as_str(value) == IF value.k = "str" THEN Some(value.s) ELSE None
as_array(value) == IF value.k = "arr" THEN Some(value.a) ELSE None
as_i64(value) == IF value.k = "int" THEN Some(value.i) ELSE None
as_u64(value) ==
    IF value.k = "int" THEN
        IF value.i >= 0 THEN Some(value.i) ELSE None
    ELSE None

\* u64 -> u32 and i64 -> u32 by try_into().ok()
try_into_u32(n) == IF n >= 0 THEN Some(n) ELSE None

\* value.get(key)?.as_str()? and friends: None stands for the early return
req_str(value, key) ==
    IF IsSome(get(value, key)) THEN as_str(Unwrap(get(value, key))) ELSE None
req_i64(value, key) ==
    IF IsSome(get(value, key)) THEN as_i64(Unwrap(get(value, key))) ELSE None
req_u64(value, key) ==
    IF IsSome(get(value, key)) THEN as_u64(Unwrap(get(value, key))) ELSE None
req_array(value, key) ==
    IF IsSome(get(value, key)) THEN as_array(Unwrap(get(value, key))) ELSE None

\* value.get(key).and_then(as_u64).and_then(try_into)
opt_u32(value, key) ==
    IF IsSome(req_u64(value, key))
    THEN try_into_u32(Unwrap(req_u64(value, key))) ELSE None

----------------------------------------------------------------------------
(* Index parser: App::from_json and Package::from_json (app.rs) *)

\* the elements of `nativecode`, or None when one of them is no string
nativecode_of(value) ==
    LET arr == req_array(value, "nativecode")
        entries == IF IsSome(arr) THEN Unwrap(arr) ELSE <<>>
    IN  IF \E i \in 1..Len(entries) : IsNone(as_str(entries[i]))
        THEN None
        ELSE Some([i \in 1..Len(entries) |-> Unwrap(as_str(entries[i]))])

\* one (name, max version) pair of `uses-permission`, or None
permission_of(entry) ==
    LET first == get_index(entry, 0)
        name == IF IsSome(first) THEN as_str(Unwrap(first)) ELSE None
        second == get_index(entry, 1)
        maxv == IF IsSome(second) THEN as_i64(Unwrap(second)) ELSE None
    IN  IF IsNone(name) \/ IsNone(second) THEN None
        ELSE Some(<<Unwrap(name),
                    IF IsSome(maxv) THEN try_into_u32(Unwrap(maxv)) ELSE None>>)

uses_permission_of(value) ==
    LET got == get(value, "uses-permission")
        arr == as_array(IF IsSome(got) THEN Unwrap(got) ELSE JNull)
        entries == IF IsSome(arr) THEN Unwrap(arr) ELSE <<>>
    IN  IF \E i \in 1..Len(entries) : IsNone(permission_of(entries[i]))
        THEN None
        ELSE Some([i \in 1..Len(entries) |-> Unwrap(permission_of(entries[i]))])

\* Package::from_json: Some(package) or None
Package_from_json(value) ==
    LET added == req_i64(value, "added")
        apk_name == req_str(value, "apkName")
        hash == req_str(value, "hash")
        hash_type == req_str(value, "hashType")
        package_name == req_str(value, "packageName")
        size == req_u64(value, "size")
        version_name == req_str(value, "versionName")
        nativecode == nativecode_of(value)
        uses_permission == uses_permission_of(value)
    IN  IF \/ IsNone(added) \/ IsNone(apk_name) \/ IsNone(hash)
           \/ IsNone(hash_type) \/ IsNone(package_name) \/ IsNone(size)
           \/ IsNone(version_name) \/ IsNone(nativecode)
           \/ IsNone(uses_permission)
        THEN None
        ELSE Some([ added |-> Unwrap(added),
                    apk_name |-> Unwrap(apk_name),
                    hash |-> Unwrap(hash),
                    hash_type |-> Unwrap(hash_type),
                    package_name |-> Unwrap(package_name),
                    size |-> Unwrap(size),
                    version_name |-> Unwrap(version_name),
                    nativecode |-> Unwrap(nativecode),
                    max_sdk_version |-> opt_u32(value, "maxSdkVersion"),
                    min_sdk_version |-> opt_u32(value, "minSdkVersion"),
                    sig |-> req_str(value, "sig"),
                    signer |-> req_str(value, "signer"),
                    target_sdk_version |-> opt_u32(value, "targetSdkVersion"),
                    uses_permission |-> Unwrap(uses_permission),
                    version_code |-> req_u64(value, "versionCode") ])

\* The categories of one app: the argument of unwrap_or is evaluated before
\* the call, so a category that is no string ends the parse whatever
\* Category::deserialize made of it.
categories_of(app) ==
    LET arr == req_array(app, "categories")
    IN  IF IsNone(arr) THEN None
        ELSE IF \E i \in 1..Len(Unwrap(arr)) : IsNone(as_str(Unwrap(arr)[i]))
        THEN None
        ELSE Some([i \in 1..Len(Unwrap(arr)) |-> Unwrap(as_str(Unwrap(arr)[i]))])

\* the packages of one app, looked up by its packageName in `packages`
packages_of(packages, package_name) ==
    LET arr == req_array(packages, package_name)
    IN  IF IsNone(arr) THEN None
        ELSE IF \E i \in 1..Len(Unwrap(arr)) :
                    IsNone(Package_from_json(Unwrap(arr)[i]))
        THEN None
        ELSE Some([i \in 1..Len(Unwrap(arr)) |->
                      Unwrap(Package_from_json(Unwrap(arr)[i]))])

\* one iteration of the loop of App::from_json
App_of(app, packages) ==
    LET name == req_str(app, "name")
        suggested_version_code == req_str(app, "suggestedVersionCode")
        license == req_str(app, "license")
        package_name == req_str(app, "packageName")
        last_updated == req_i64(app, "lastUpdated")
        added == req_i64(app, "added")
        categories == categories_of(app)
        packages_vec == IF IsSome(package_name)
                        THEN packages_of(packages, Unwrap(package_name))
                        ELSE None
    IN  IF \/ IsNone(name) \/ IsNone(suggested_version_code)
           \/ IsNone(license) \/ IsNone(package_name)
           \/ IsNone(last_updated) \/ IsNone(added)
           \/ IsNone(categories) \/ IsNone(packages_vec)
        THEN None
        ELSE Some([ name |-> Unwrap(name),
                    suggested_version_code |-> Unwrap(suggested_version_code),
                    license |-> Unwrap(license),
                    package_name |-> Unwrap(package_name),
                    last_updated |-> Unwrap(last_updated),
                    added |-> Unwrap(added),
                    packages |-> Unwrap(packages_vec),
                    categories |-> Unwrap(categories) ])

\* App::from_json, had it left out the apps it cannot map
App_from_json_skipping(value) ==
    LET apps_value == get(value, "apps")
        packages == get(value, "packages")
        arr == req_array(value, "apps")
    IN  IF IsNone(apps_value) \/ IsNone(packages) \/ IsNone(arr) THEN None
        ELSE LET kept == SelectSeq(Unwrap(arr),
                             LAMBDA app : IsSome(App_of(app, Unwrap(packages))))
             IN  Some([i \in 1..Len(kept) |->
                          Unwrap(App_of(kept[i], Unwrap(packages)))])

\* App::from_json: Some(list of apps) or None
App_from_json(value) ==
    LET apps_value == get(value, "apps")
        packages == get(value, "packages")
        arr == req_array(value, "apps")
    IN  IF IsNone(apps_value) \/ IsNone(packages) \/ IsNone(arr) THEN None
        ELSE IF \E i \in 1..Len(Unwrap(arr)) :
                    IsNone(App_of(Unwrap(arr)[i], Unwrap(packages)))
        THEN None
        ELSE Some([i \in 1..Len(Unwrap(arr)) |->
                      Unwrap(App_of(Unwrap(arr)[i], Unwrap(packages)))])

\* apps, had it opened the index file without asking whether it exists
apps_opening_absent_index(indexFile, readOk) ==
    IF IsNone(indexFile) \/ ~readOk THEN [res |-> Err("File", ""), list |-> <<>>]
    ELSE LET parsed == App_from_json(Unwrap(indexFile))
         IN  IF IsNone(parsed)
             THEN [res |-> Err("JsonConvert",
                               "Could not map repository index file!"),
                   list |-> <<>>]
             ELSE [res |-> Ok, list |-> Unwrap(parsed)]

\* Repository::apps as a function of the index file: the returned Result and,
\* when Ok, the list.  readOk is whether opening and reading the file works.
apps(indexFile, readOk) ==
    IF IsNone(indexFile) THEN [res |-> Ok, list |-> <<>>]
    ELSE IF ~readOk THEN [res |-> Err("File", ""), list |-> <<>>]
    ELSE LET parsed == App_from_json(Unwrap(indexFile))
         IN  IF IsNone(parsed)
             THEN [res |-> Err("JsonConvert",
                               "Could not map repository index file!"),
                   list |-> <<>>]
             ELSE [res |-> Ok, list |-> Unwrap(parsed)]

----------------------------------------------------------------------------
(* External tool invoker: Repository::run, update, publish (mod.rs) *)

\* How a spawned `fdroid` process can end.
Outcomes == {"spawn_error", "wait_error", "exit_zero", "exit_nonzero"}

\* one step of a call's trace
Step(step, what, out) == [step |-> step, what |-> what, out |-> out]

\* format!("fdroid {command} {}", args.join(" ")).trim()
cmdline(command, args) ==
    IF Join(args) = "" THEN "fdroid " \o command
    ELSE "fdroid " \o command \o " " \o Join(args)

\* run_result of Repository::run: spawn().ok().and_then(|p| p.wait().ok()),
\* an Option<ExitStatus>
run_result(outcome) ==
    IF outcome \in {"spawn_error", "wait_error"} THEN None ELSE Some(outcome)

\* Repository::run: the Result and the process it started
run(command, args, outcome) ==
    [ res |-> IF IsSome(run_result(outcome)) THEN Ok
              ELSE Err("Run", cmdline(command, args)),
      trace |-> << Step("run", cmdline(command, args), outcome) >> ]

\* Repository::update: `fdroid update -c`, then `fdroid update`
update(o1, o2) ==
    LET first == run("update", <<"-c">>, o1)
        second == run("update", <<>>, o2)
    IN  IF IsErr(first.res)
        THEN [res |-> map_err(first.res, Err("Update", "")),
              trace |-> first.trace]
        ELSE [res |-> map_err(second.res, Err("Update", "")),
              trace |-> first.trace \o second.trace]

\* publish, had it run `fdroid update` in place of `fdroid publish`
publish_running_update(o) == run("update", <<>>, o)

\* publish, had it mapped the error of run to Update as update does
publish_mapping_error(o) ==
    [ res |-> map_err(run("publish", <<>>, o).res, Err("Update", "")),
      trace |-> run("publish", <<>>, o).trace ]

\* Repository::publish: `fdroid publish`
publish(o) == run("publish", <<>>, o)

----------------------------------------------------------------------------
(* What the external tool does to the repository when it exits with 0.     *)
(* A process that was not started, or ended otherwise, changes nothing.    *)

Ran(trace, what) ==
    \E i \in 1..Len(trace) :
        /\ trace[i].step = "run"
        /\ trace[i].what = what
        /\ trace[i].out = "exit_zero"

Updated(trace) == Ran(trace, "fdroid update -c") \/ Ran(trace, "fdroid update")

\* regular files of the package directory, in listing order
FilesOf(repoX) ==
    SelectSeq(NameOrder,
              LAMBDA n : n \in DOMAIN repoX /\ repoX[n].kind = "file")

PackageJson(name, c) ==
    JObj([ added |-> JInt(0),
           apkName |-> JStr(name),
           hash |-> JStr("h" \o ToString(c)),
           hashType |-> JStr("sha256"),
           packageName |-> JStr(Apk(c).pkg),
           size |-> JInt(c),
           versionName |-> JStr("1.0"),
           versionCode |-> JInt(Apk(c).vc),
           sig |-> JStr("s" \o ToString(c)) ])

AppJson(pkg) ==
    JObj([ name |-> JStr(pkg),
           suggestedVersionCode |-> JStr("1"),
           license |-> JStr("Unknown"),
           packageName |-> JStr(pkg),
           lastUpdated |-> JInt(0),
           added |-> JInt(0),
           categories |-> JArr(<<>>) ])

\* index-v1.json as `fdroid update` writes it for a package directory
GenIndex(repoX) ==
    LET files == FilesOf(repoX)
        pkgs == SelectSeq(Letters,
                    LAMBDA p : \E i \in 1..Len(files) :
                                  Apk(repoX[files[i]].content).pkg = p)
        of(p) == SelectSeq(files, LAMBDA n : Apk(repoX[n].content).pkg = p)
    IN  JObj([ apps |-> JArr([i \in 1..Len(pkgs) |-> AppJson(pkgs[i])]),
               packages |->
                   JObj([p \in {pkgs[i] : i \in 1..Len(pkgs)} |->
                           JArr([j \in 1..Len(of(p)) |->
                                   PackageJson(of(p)[j],
                                               repoX[of(p)[j]].content)])]) ])

\* `fdroid publish`: signs every staged artifact and moves it to repo/
PublishedRepo(repoX, unsignedX) ==
    [n \in DOMAIN repoX \cup DOMAIN unsignedX |->
        IF n \in DOMAIN unsignedX THEN FileEntry(unsignedX[n]) ELSE repoX[n]]

\* the package directory after the tool runs of `trace`
ToolRepo(dirX, repoX, unsignedX, trace) ==
    LET published == IF dirX /\ Ran(trace, "fdroid publish")
                     THEN PublishedRepo(repoX, unsignedX) ELSE repoX
    IN  IF dirX /\ Updated(trace) /\ "icons" \notin DOMAIN published
        THEN With(published, "icons", DirEntry)
        ELSE published

ToolUnsigned(dirX, unsignedX, trace) ==
    IF dirX /\ Ran(trace, "fdroid publish")
    THEN [n \in {} |-> 0] ELSE unsignedX

\* the index after the tool runs of `trace` on package directory repoX
ToolIndex(dirX, repoX, indexX, trace) ==
    IF dirX /\ Updated(trace) THEN Some(GenIndex(repoX)) ELSE indexX

----------------------------------------------------------------------------
(* aapt.rs *)

DigitChars == {"0", "1", "2", "3", "4", "5", "6", "7", "8", "9"}
AlphaChars == {"a", "b", "c", "d", "x", "M"}

DigitVal(c) == CHOOSE d \in 0..9 : ToString(d) = c

RECURSIVE ParseDigits(_)
ParseDigits(val) ==
    IF val = <<>> THEN 0
    ELSE 10 * ParseDigits(SubSeq(val, 1, Len(val) - 1)) + DigitVal(val[Len(val)])

RECURSIVE Concat(_)
Concat(val) == IF val = <<>> THEN "" ELSE val[1] \o Concat(Tail(val))

\* position of the first item the pattern attr='(class+)' matches, 0 if none
FirstMatch(text, attr, class) ==
    LET hits == {i \in 1..Len(text) :
                    /\ text[i].attr = attr
                    /\ text[i].val # <<>>
                    /\ \A j \in 1..Len(text[i].val) : text[i].val[j] \in class}
    IN  IF hits = {} THEN 0 ELSE CHOOSE i \in hits : \A j \in hits : i <= j

\* get_apk_info: the Result and the text; the path is given by the content of
\* the file it names (None: no regular file there)
get_apk_info(content, spawnOk) ==
    IF IsNone(content) THEN [res |-> Err("NotAFile", ""), text |-> <<>>]
    ELSE IF ~spawnOk THEN [res |-> Err("InvalidFile", ""), text |-> <<>>]
    ELSE [res |-> Ok, text |-> Badging(Unwrap(content))]

\* get_version_code: versionCode='(\d+)' parsed as u32 (a value of ten or
\* more digits is above every version code of the model and does not parse)
get_version_code(text) ==
    LET i == FirstMatch(text, "versionCode", DigitChars)
    IN  IF i = 0 THEN None
        ELSE IF Len(text[i].val) >= 10 THEN None
        ELSE Some(ParseDigits(text[i].val))

\* get_name, had its pattern been name='([^']+)'
get_name_of_any_characters(text) ==
    LET hits == {i \in 1..Len(text) :
                    text[i].attr = "name" /\ text[i].val # <<>>}
    IN  IF hits = {} THEN None
        ELSE Some(Concat(text[CHOOSE i \in hits : \A j \in hits : i <= j].val))

\* get_name: name='((?:[[:alpha:]]|\.)+)'
get_name(text) ==
    LET i == FirstMatch(text, "name", AlphaChars \cup {"."})
    IN  IF i = 0 THEN None ELSE Some(Concat(text[i].val))

\* format!("{}_{}.apk", apk_name, apk_version)
UnsignedName(apk_name, apk_version) ==
    apk_name \o "_" \o ToString(apk_version) \o ".apk"

----------------------------------------------------------------------------
(* Config manager: ConfigFile, Config and their conversions (config.rs) *)

\* fields of ConfigFile that are plain Strings: a document without one of
\* them does not deserialize
RequiredKeys == {"sdk_path", "repo_keyalias", "keystore", "keystorepass",
                 "keypass", "keydname"}

\* the fields of Config, all of them Options
PublicKeys == {"repo_url", "repo_name", "repo_icon", "repo_description",
               "archive_url", "archive_name", "archive_icon",
               "archive_description", "archive_older"}

\* Option fields of ConfigFile, serialized only when they are Some
OptionalKeys == PublicKeys \cup {"apksigner"}

\* the fields merge_with_public takes from self
ImmutableKeys == RequiredKeys \cup {"apksigner"}

\* serde_yaml::to_string(&ConfigFile): the mapping written to config.yml
to_string(config_file) ==
    [key \in RequiredKeys \cup
             {o \in OptionalKeys : IsSome(config_file[o])} |->
        IF key \in RequiredKeys THEN config_file[key]
        ELSE Unwrap(config_file[key])]

\* serde_yaml::from_str::<ConfigFile>: Ok with the struct, or the error
from_str(doc) ==
    IF RequiredKeys \subseteq DOMAIN doc
    THEN [res |-> Ok,
          value |-> [key \in RequiredKeys \cup OptionalKeys |->
                        IF key \in RequiredKeys THEN doc[key]
                        ELSE IF key \in DOMAIN doc THEN Some(doc[key])
                        ELSE None]]
    ELSE [res |-> Err("YAMLConvert", ""), value |-> <<>>]

\* merge_with_public, had it built the apksigner field anew instead of
\* cloning it from self
merge_without_apksigner(self, public) ==
    [ sdk_path |-> self.sdk_path,
      repo_keyalias |-> self.repo_keyalias,
      keystore |-> self.keystore,
      keystorepass |-> self.keystorepass,
      keypass |-> self.keypass,
      keydname |-> self.keydname,
      apksigner |-> None,
      repo_url |-> public.repo_url,
      repo_name |-> public.repo_name,
      repo_icon |-> public.repo_icon,
      archive_icon |-> public.archive_icon,
      repo_description |-> public.repo_description,
      archive_description |-> public.archive_description,
      archive_name |-> public.archive_name,
      archive_older |-> public.archive_older,
      archive_url |-> public.archive_url ]

\* merge_with_public, had it crossed the two icon fields
merge_with_icons_crossed(self, public) ==
    [ sdk_path |-> self.sdk_path,
      repo_keyalias |-> self.repo_keyalias,
      keystore |-> self.keystore,
      keystorepass |-> self.keystorepass,
      keypass |-> self.keypass,
      keydname |-> self.keydname,
      apksigner |-> self.apksigner,
      repo_url |-> public.repo_url,
      repo_name |-> public.repo_name,
      repo_icon |-> public.archive_icon,
      archive_icon |-> public.repo_icon,
      repo_description |-> public.repo_description,
      archive_description |-> public.archive_description,
      archive_name |-> public.archive_name,
      archive_older |-> public.archive_older,
      archive_url |-> public.archive_url ]

\* ConfigFile::merge_with_public
merge_with_public(self, public) ==
    [ sdk_path |-> self.sdk_path,
      repo_keyalias |-> self.repo_keyalias,
      keystore |-> self.keystore,
      keystorepass |-> self.keystorepass,
      keypass |-> self.keypass,
      keydname |-> self.keydname,
      apksigner |-> self.apksigner,
      repo_url |-> public.repo_url,
      repo_name |-> public.repo_name,
      repo_icon |-> public.repo_icon,
      archive_icon |-> public.archive_icon,
      repo_description |-> public.repo_description,
      archive_description |-> public.archive_description,
      archive_name |-> public.archive_name,
      archive_older |-> public.archive_older,
      archive_url |-> public.archive_url ]

\* impl From<ConfigFile> for Config
Config_from(value) ==
    [ repo_url |-> value.repo_url,
      repo_name |-> value.repo_name,
      repo_icon |-> value.repo_icon,
      repo_description |-> value.repo_description,
      archive_url |-> value.archive_url,
      archive_name |-> value.archive_name,
      archive_icon |-> value.archive_icon,
      archive_description |-> value.archive_description,
      archive_older |-> value.archive_older ]

\* Repository::get_config: read config.yml (readOk: the read works) and decode
get_config(doc, readOk) ==
    IF ~readOk THEN [res |-> Err("File", ""), value |-> <<>>]
    ELSE from_str(doc)

\* Repository::config
config(doc, readOk) ==
    LET got == get_config(doc, readOk)
    IN  IF IsErr(got.res) THEN got
        ELSE [res |-> Ok, value |-> Config_from(got.value)]

\* Repository::keystore_password
keystore_password(doc, readOk) ==
    LET got == get_config(doc, readOk)
    IN  IF IsErr(got.res) THEN got
        ELSE [res |-> Ok, value |-> got.value.keystorepass]

\* A file name as its dot-separated parts: <<"icon", "png">> is icon.png.
\* Path::extension: the part after the last dot, None when there is no dot
\* or the only dot starts the name.
extension(name) ==
    IF Len(name) < 2 THEN None
    ELSE IF Len(name) = 2 /\ name[1] = "" THEN None
    ELSE Some(name[Len(name)])

\* format!("{:?}", s) of a string without characters to escape: s in quotes
Debug(s) == "\"" \o s \o "\""

\* image_path, had it named icon.png whatever the configuration says
image_path_default(doc, readOk) ==
    LET got == get_config(doc, readOk)
    IN  IF IsErr(got.res) THEN got
        ELSE [res |-> Ok, value |-> <<"icon", "png">>]

\* Repository::image_path: the Result and the icon's file name in repo/icons
image_path(doc, readOk) ==
    LET got == get_config(doc, readOk)
    IN  IF IsErr(got.res) THEN got
        ELSE [res |-> Ok,
              value |-> IF IsSome(got.value.repo_icon)
                        THEN Unwrap(got.value.repo_icon)
                        ELSE <<"icon", "png">>]

\* the immutable fields stored in a configuration document
Immutables(doc) == [key \in ImmutableKeys \cap DOMAIN doc |-> doc[key]]

----------------------------------------------------------------------------
(* Inputs *)

\* the value a caller gives to a public field
FieldValue(key, n) ==
    IF key = "archive_older" THEN n
    ELSE IF key = "repo_icon" THEN <<"logo", "jpg">>
    ELSE IF key = "archive_icon" THEN <<"archive", "png">>
    ELSE key \o "-" \o ToString(n)

\* every Config whose set fields are `set`
ConfigOf(set, n) ==
    [key \in PublicKeys |->
        IF key \in set THEN Some(FieldValue(key, n)) ELSE None]

\* the public configurations written: no or one field set, no or one field
\* absent; a second and later value for all fields, for the retention count
\* alone and for the name alone
Configs ==
    {ConfigOf(set, 0) :
        set \in {{}, PublicKeys} \cup {{k} : k \in PublicKeys}
                   \cup {PublicKeys \ {k} : k \in PublicKeys}}
        \cup {ConfigOf(set, n) :
                  set \in {PublicKeys, {"archive_older"}, {"repo_name"}},
                  n \in 1..MaxOlder}

\* config.yml as `fdroid init` leaves it
InitDoc(withSigner) ==
    [key \in RequiredKeys \cup (IF withSigner THEN {"apksigner"} ELSE {}) |->
        key \o "-0"]

\* the paths add_app and sign_app are called with: the file name of the path
\* and the content of the regular file it names (None: no such file)
Path(file_name, content) == [file_name |-> file_name, content |-> content]

AddPaths ==
    {Path(Some(AddNames[i]), Some(c)) : i \in 1..Len(AddNames), c \in ApkIds}
        \cup {Path(Some(AddNames[1]), None), Path(None, None)}

\* the one artifact and the one configuration of the calls of SpecOps
FirstPath == Path(Some(AddNames[1]), Some(1))

NameConfig == ConfigOf({"repo_name"}, 0)

\* the paths sign_app is called with: in.apk holding apk 1, no apk at all, or
\* a file whose text lacks the version code or the name
SignPaths == {Path(Some("in.apk"), Some(c)) : c \in {0, 1}}

NoMatchPaths == {Path(Some("in.apk"), Some(c)) : c \in NoMatchApks}

\* the names delete_app is called with
DeleteNames == {AddNames[i] : i \in 1..Len(AddNames)} \cup {"icons", "z.apk"}

\* the images set_image is called with: name parts and content
Images == {[name |-> <<"new", "png">>, content |-> 1],
           [name |-> <<"new", "jpg">>, content |-> 2],
           [name |-> <<"new">>, content |-> 3]}

\* the images set_image is called with when the icon is the subject: with
\* and without an extension, and two contents under every name
ManyImages ==
    {[name |-> n, content |-> c] :
        n \in {<<"new", "png">>, <<"new", "jpg">>, <<"new">>,
               <<"", "png">>, <<"new", "tar", "png">>},
        c \in {1, 2}}

\* the public configurations that name the icon: not at all, with an
\* extension, without one
IconConfigs ==
    {ConfigOf({}, 0), ConfigOf({"repo_icon"}, 0),
     [ConfigOf({}, 0) EXCEPT !.repo_icon = Some(<<"logo">>)]}

\* Index documents handed to the parser.  The kinds the parser asks of the
\* fields of an app and of the required fields of a package:
AppFieldKind ==
    [ name |-> "str", suggestedVersionCode |-> "str", license |-> "str",
      packageName |-> "str", lastUpdated |-> "int", added |-> "int",
      categories |-> "arr" ]

PackageFieldKind ==
    [ added |-> "int", apkName |-> "str", hash |-> "str", hashType |-> "str",
      packageName |-> "str", size |-> "int", versionName |-> "str" ]

\* the optional fields of a package, with a value of the kind the parser
\* keeps for each
OptionalFields ==
    [ nativecode |-> JArr(<< JStr("arm64-v8a") >>),
      minSdkVersion |-> JInt(21),
      maxSdkVersion |-> JInt(33),
      targetSdkVersion |-> JInt(32),
      sig |-> JStr("s"),
      signer |-> JStr("g"),
      versionCode |-> JInt(1) ]

\* a value of another kind than v
WrongKind(v) == IF v.k = "str" THEN JInt(7) ELSE JStr("x")

\* object obj with field key dropped ("drop") or of another kind ("kind")
Mutate(obj, how, key) ==
    IF how = "drop" THEN JObj(Without(obj.o, key))
    ELSE JObj(With(obj.o, key, WrongKind(obj.o[key])))

\* the package record of artifact c with every optional field and the
\* permission list perms
FullPackage(c, perms) ==
    JObj(PackageJson(SignedName(c), c).o @@ OptionalFields
             @@ [key \in {"uses-permission"} |-> perms])

\* a well-formed permission list
GoodPermissions ==
    JArr(<< JArr(<< JStr("INTERNET"), JNull >>),
            JArr(<< JStr("CAMERA"), JInt(28) >>) >>)

\* the package identifiers of the artifacts
AllKeys == {Apk(i).pkg : i \in ApkIds}

\* the index of one app per artifact, where app `at` is appAt, its package
\* list (under its own key, or under the key that is no app's) is pkgsAt,
\* and the packages mapping has the keys `keys`
IndexWith(at, appAt, pkgsAt, keys) ==
    JObj([ apps |-> JArr([i \in ApkIds |->
                            IF i = at THEN appAt ELSE AppJson(Apk(i).pkg)]),
           packages |->
               JObj([p \in keys |->
                       IF p = Apk(at).pkg \/ p \notin AllKeys THEN pkgsAt
                       ELSE LET c == CHOOSE i \in ApkIds : Apk(i).pkg = p
                            IN  JArr(<< FullPackage(c, GoodPermissions) >>)]) ])

\* index where the only package of app `at` is pkg
IndexWithPackage(at, pkg) ==
    IndexWith(at, AppJson(Apk(at).pkg), JArr(<< pkg >>), AllKeys)

\* ways of writing one entry of a permission list
PermissionEntries ==
    { JArr(<< JStr("NFC"), JInt(30) >>),
      JArr(<< JStr("NFC"), JNull >>),
      JArr(<< JStr("NFC"), JStr("30") >>),
      JArr(<< JStr("NFC"), JInt(-1) >>),
      JArr(<< JStr("NFC") >>),
      JArr(<<>>),
      JArr(<< JStr("NFC"), JInt(30), JInt(31) >>),
      JArr(<< JStr("NFC"), JNull, JNull, JNull >>),
      JArr(<< JInt(5), JInt(30) >>),
      JArr(<< JNull, JNull >>),
      JStr("NFC"),
      JObj([name |-> JStr("NFC")]) }

\* indexes with one app record changed
AppDocs ==
    { IndexWith(at, Mutate(AppJson(Apk(at).pkg), how, key),
                JArr(<< FullPackage(at, GoodPermissions) >>), AllKeys) :
        at \in ApkIds, how \in {"drop", "kind"}, key \in DOMAIN AppFieldKind }
    \cup { IndexWith(at, AppJson(Apk(at).pkg), JNull, AllKeys \ {Apk(at).pkg}) :
              at \in ApkIds }
    \cup { IndexWith(at, AppJson(Apk(at).pkg), JStr("x"), AllKeys) :
              at \in ApkIds }

\* indexes with one package record changed in a required field, in an
\* optional field, or in its permission list
PackageDocs ==
    { IndexWithPackage(at, Mutate(FullPackage(at, GoodPermissions), how, key)) :
        at \in ApkIds, how \in {"drop", "kind"},
        key \in DOMAIN PackageFieldKind \cup DOMAIN OptionalFields
                   \cup {"uses-permission"} }
    \cup { IndexWithPackage(at,
              JObj(With(FullPackage(at, GoodPermissions).o, "nativecode",
                        JArr(<< JStr("x86"), elem >>)))) :
              at \in ApkIds, elem \in {JInt(1), JNull, JStr("arm")} }
    \cup { IndexWithPackage(at,
              FullPackage(at, JArr(<< JArr(<< JStr("INTERNET"), JNull >>),
                                      entry >>))) :
              at \in ApkIds, entry \in PermissionEntries }

\* indexes whose apps are not backed by a package of their own
OddDocs ==
    { IndexWith(at, AppJson(Apk(at).pkg), JArr(<<>>), AllKeys) : at \in ApkIds }
    \cup { IndexWithPackage(at,
              JObj(With(FullPackage(at, GoodPermissions).o, "packageName",
                        JStr("other")))) : at \in ApkIds }
    \cup { IndexWith(1, JObj(With(AppJson("").o, "name", JStr("a"))),
                     JArr(<< FullPackage(1, GoodPermissions) >>),
                     (AllKeys \ {Apk(1).pkg}) \cup {""}) }

\* indexes without one of the two top-level collections
TopDocs ==
    { JObj([apps |-> JArr(<<>>)]),
      JObj([packages |-> JObj([p \in AllKeys |-> JArr(<<>>)])]),
      JObj([apps |-> JStr("x"), packages |-> JObj([p \in AllKeys |-> JArr(<<>>)])]),
      JObj([apps |-> JArr(<<>>), packages |-> JNull]) }

IndexDocs == AppDocs \cup PackageDocs \cup OddDocs \cup TopDocs

----------------------------------------------------------------------------
(* State *)

Empty == [n \in {} |-> 0]

\* what `last` records of a call
Call(op, arg, res, trace) == [op |-> op, arg |-> arg, res |-> res, trace |-> trace]

\* An open repository: Repository::new returned Ok.  The index is there
\* unless the update of initialize left none; docs are the configuration
\* documents `fdroid init` may have written.
InitWith(docs) ==
    /\ repoDir = TRUE
    /\ repo = [n \in {"icons"} |-> DirEntry]
    /\ index \in {None, Some(GenIndex(repo))}
    /\ icons = Empty
    /\ metaDir = TRUE
    /\ metadata = {}
    /\ unsignedKind = "absent"
    /\ unsigned = Empty
    /\ configFile \in docs
    /\ created = Immutables(configFile)
    /\ last = Call("new", "", Ok, <<>>)

Init == InitWith({InitDoc(TRUE)})

InitConfig == InitWith({InitDoc(FALSE), InitDoc(TRUE)})

\* A root directory nothing was run in yet: no config.yml (a configuration
\* document without any key stands for the absent file), no sub-directory.
InitNew ==
    /\ repoDir = FALSE
    /\ repo = Empty
    /\ index = None
    /\ icons = Empty
    /\ metaDir = FALSE
    /\ metadata = {}
    /\ unsignedKind = "absent"
    /\ unsigned = Empty
    /\ configFile = Empty
    /\ created = Empty
    /\ last = Call("none", "", Ok, <<>>)

\* An open repository whose index file is any of the index documents, or
\* absent.
InitParse ==
    /\ repoDir = TRUE
    /\ repo = [n \in {"icons"} |-> DirEntry]
    /\ index \in {None} \cup {Some(d) : d \in IndexDocs}
    /\ icons = Empty
    /\ metaDir = TRUE
    /\ metadata = {}
    /\ unsignedKind = "absent"
    /\ unsigned = Empty
    /\ configFile = InitDoc(TRUE)
    /\ created = Immutables(configFile)
    /\ last = Call("new", "", Ok, <<>>)

\* `fdroid init` that exits with 0 in a directory without config.yml writes
\* config.yml and creates repo/ and metadata/; it leaves an existing
\* configuration alone.
InitWrote(outcome, doc) == outcome = "exit_zero" /\ doc = Empty

fsVars == <<repoDir, repo, index, icons, metaDir, metadata, unsignedKind,
            unsigned, configFile>>

\* How the two processes of one update end; the second is started only when
\* run returned Ok for the first, and is given the first's outcome otherwise.
UpdateRuns ==
    {u \in Outcomes \X Outcomes :
        IsErr(run("update", <<"-c">>, u[1]).res) => u[2] = u[1]}

\* some runs of update: both processes exit with 0, the second cannot be
\* started, the first cannot be waited for
FewRuns == {<<"exit_zero", "exit_zero">>, <<"exit_zero", "spawn_error">>,
            <<"wait_error", "wait_error">>}

\* the runs add_app and delete_app are tried with: those, and both processes
\* exiting with a nonzero status
SomeRuns == FewRuns \cup {<<"exit_nonzero", "exit_nonzero">>}

\* The faults and runs a call is tried with: a fault that ends the call
\* before update is paired with one run only, and a fault of the clean-up
\* of add_app with the runs in which update returns an error.
Scenarios(runs, early, late) ==
    {<<"none", u>> : u \in runs}
        \cup {<<f, <<"spawn_error", "spawn_error">> >> : f \in early}
        \cup {<<f, u>> : f \in late,
                        u \in {r \in runs : IsErr(update(r[1], r[2]).res)}}

\* The effects of the tool runs of `trace` on a repository whose package
\* directory, staging directory and metadata are repoX, unsignedX, metadataX.
ToolEffects(repoX, unsignedX, metadataX, trace) ==
    LET repoT == ToolRepo(repoDir, repoX, unsignedX, trace)
    IN  /\ repo' = repoT
        /\ unsigned' = ToolUnsigned(repoDir, unsignedX, trace)
        /\ index' = ToolIndex(repoDir, repoT, index, trace)
        /\ metadata' = metadataX

\* a call that returns res and leaves the file system as it is
Return(op, arg, res, trace) ==
    /\ last' = Call(op, arg, res, trace)
    /\ UNCHANGED <<fsVars, created>>

----------------------------------------------------------------------------
(* Lifecycle coordinator (app.rs, mod.rs).                                 *)
(* `fault` names the file-system or spawn step of the call that meets an   *)
(* error ("none": no step does); u is how the processes of update end.     *)

\* Repository::update, called by the user of the library
update_call(u) ==
    LET upd == update(u[1], u[2])
    IN  /\ ToolEffects(repo, unsigned, metadata, upd.trace)
        /\ last' = Call("update", "", upd.res, upd.trace)
        /\ UNCHANGED <<repoDir, icons, metaDir, unsignedKind, configFile, created>>

\* The body of Repository::initialize, recorded as call `op`: `fdroid init`
\* ending as oi, then update.  withSigner is which document the tool writes.
initialize_as(op, arg, withSigner, oi, u) ==
    LET init == run("init", <<>>, oi)
        upd == update(u[1], u[2])
        wrote == InitWrote(oi, configFile)
        dir1 == repoDir \/ wrote
        repoT == ToolRepo(dir1, repo, unsigned, upd.trace)
    IN  IF IsErr(init.res)
        THEN Return(op, arg, map_err(init.res, Err("Init", "")), init.trace)
        ELSE /\ configFile' = IF wrote THEN InitDoc(withSigner) ELSE configFile
             /\ created' = IF wrote THEN Immutables(InitDoc(withSigner))
                            ELSE created
             /\ repoDir' = dir1
             /\ metaDir' = (metaDir \/ wrote)
             /\ repo' = repoT
             /\ index' = ToolIndex(dir1, repoT, index, upd.trace)
             /\ last' = Call(op, arg, upd.res, init.trace \o upd.trace)
             /\ UNCHANGED <<icons, metadata, unsignedKind, unsigned>>

\* Repository::initialize
initialize(withSigner, oi, u) ==
    initialize_as("initialize", "", withSigner, oi, u)

\* new, had it initialized the directory whether or not config.yml is there
new_initializing_always(path_kind, withSigner, oi, u) ==
    IF path_kind # "dir"
    THEN Return("new", path_kind, Err("NotADirectory", ""), <<>>)
    ELSE initialize_as("new", path_kind, withSigner, oi, u)

\* Repository::new; path_kind is what the given path names
new(path_kind, withSigner, oi, u) ==
    IF path_kind # "dir"
    THEN Return("new", path_kind, Err("NotADirectory", ""), <<>>)
    ELSE IF configFile # Empty
    THEN Return("new", path_kind, Ok, <<>>)
    ELSE initialize_as("new", path_kind, withSigner, oi, u)

\* Repository::add_app
add_app(file_path, fault, u) ==
    IF IsNone(file_path.file_name)
    THEN Return("add_app", file_path, Err("NotAFile", ""), <<>>)
    ELSE
    LET name == Unwrap(file_path.file_name)
        existed == repoDir /\ name \in DOMAIN repo
        warned == IF existed
                  THEN << Step("warn", "File already exists", name) >>
                  ELSE <<>>
        copied == /\ fault # "copy"
                  /\ IsSome(file_path.content)
                  /\ repoDir
                  /\ existed => repo[name].kind = "file"
        repo1 == With(repo, name, FileEntry(Unwrap(file_path.content)))
        update_result == update(u[1], u[2])
        repo2 == ToolRepo(repoDir, repo1, unsigned, update_result.trace)
        cleanup == /\ IsErr(update_result.res)
                   /\ name \in DOMAIN repo2
                   /\ repo2[name].kind = "file"
        steps == warned \o << Step("copy", name, "ok") >> \o update_result.trace
    IN  IF ~copied
        THEN Return("add_app", file_path, Err("File", ""),
                    warned \o << Step("copy", name, "error") >>)
        ELSE /\ index' = ToolIndex(repoDir, repo2, index, update_result.trace)
             /\ unsigned' = ToolUnsigned(repoDir, unsigned, update_result.trace)
             /\ IF cleanup /\ fault # "remove_file"
                THEN /\ repo' = Without(repo2, name)
                     /\ last' = Call("add_app", file_path, Ok,
                            steps \o << Step("remove_file", name, "ok") >>)
                ELSE IF cleanup
                THEN /\ repo' = repo2
                     /\ last' = Call("add_app", file_path, Err("File", ""),
                            steps \o << Step("remove_file", name, "error") >>)
                ELSE /\ repo' = repo2
                     /\ last' = Call("add_app", file_path, Ok, steps)
             /\ UNCHANGED <<repoDir, icons, metaDir, metadata, unsignedKind,
                            configFile, created>>

\* delete_app_missing, had it gone on to update
delete_app_missing_updating(apk_name, u) ==
    LET upd == update(u[1], u[2])
    IN  /\ ToolEffects(repo, unsigned, metadata, upd.trace)
        /\ last' = Call("delete_app", apk_name, upd.res,
                        << Step("warn", "file does not exist", apk_name) >>
                            \o upd.trace)
        /\ UNCHANGED <<repoDir, icons, metaDir, unsignedKind, configFile,
                       created>>

\* delete_app, the file does not exist: warn and return Ok(())
delete_app_missing(apk_name, u) ==
    Return("delete_app", apk_name, Ok,
           << Step("warn", "file does not exist", apk_name) >>)

\* delete_app_file, had it dropped the result of update as add_app does
delete_app_file_swallowing(apk_name, fault, u) ==
    LET upd == update(u[1], u[2])
    IN  IF fault = "remove_file"
        THEN Return("delete_app", apk_name, Err("File", ""),
                    << Step("remove_file", apk_name, "error") >>)
        ELSE /\ ToolEffects(Without(repo, apk_name), unsigned, metadata,
                            upd.trace)
             /\ last' = Call("delete_app", apk_name, Ok,
                             << Step("remove_file", apk_name, "ok") >>
                                 \o upd.trace)
             /\ UNCHANGED <<repoDir, icons, metaDir, unsignedKind,
                            configFile, created>>

\* delete_app_file, had it updated before removing the file
delete_app_file_update_first(apk_name, fault, u) ==
    LET upd == update(u[1], u[2])
        repoT == ToolRepo(repoDir, repo, unsigned, upd.trace)
    IN  IF fault = "remove_file"
        THEN Return("delete_app", apk_name, Err("File", ""),
                    << Step("remove_file", apk_name, "error") >>)
        ELSE /\ repo' = Without(repoT, apk_name)
             /\ index' = ToolIndex(repoDir, repoT, index, upd.trace)
             /\ unsigned' = ToolUnsigned(repoDir, unsigned, upd.trace)
             /\ last' = Call("delete_app", apk_name, upd.res,
                             upd.trace
                                 \o << Step("remove_file", apk_name, "ok") >>)
             /\ UNCHANGED <<repoDir, icons, metaDir, metadata, unsignedKind,
                            configFile, created>>

\* delete_app_file, had it returned without updating
delete_app_file_without_update(apk_name, fault, u) ==
    IF fault = "remove_file"
    THEN Return("delete_app", apk_name, Err("File", ""),
                << Step("remove_file", apk_name, "error") >>)
    ELSE /\ repo' = Without(repo, apk_name)
         /\ last' = Call("delete_app", apk_name, Ok,
                         << Step("remove_file", apk_name, "ok") >>)
         /\ UNCHANGED <<repoDir, index, icons, metaDir, metadata, unsignedKind,
                        unsigned, configFile, created>>

\* delete_app, the path is a regular file: remove it, then update
delete_app_file(apk_name, fault, u) ==
    LET upd == update(u[1], u[2])
    IN  IF fault = "remove_file"
        THEN Return("delete_app", apk_name, Err("File", ""),
                    << Step("remove_file", apk_name, "error") >>)
        ELSE /\ ToolEffects(Without(repo, apk_name), unsigned, metadata,
                            upd.trace)
             /\ last' = Call("delete_app", apk_name, upd.res,
                             << Step("remove_file", apk_name, "ok") >>
                                 \o upd.trace)
             /\ UNCHANGED <<repoDir, icons, metaDir, unsignedKind,
                            configFile, created>>

\* delete_app, had it not asked whether the entry is a regular file
delete_app_of_any_kind(apk_name, fault, u) ==
    IF repoDir /\ apk_name \in DOMAIN repo
    THEN delete_app_file(apk_name, fault, u)
    ELSE delete_app_missing(apk_name, u)

\* Repository::delete_app
delete_app(apk_name, fault, u) ==
    IF repoDir /\ apk_name \in DOMAIN repo
    THEN IF repo[apk_name].kind = "file"
         THEN delete_app_file(apk_name, fault, u)
         ELSE Return("delete_app", apk_name, Err("NotAFile", ""), <<>>)
    ELSE delete_app_missing(apk_name, u)

\* clear, had it put back what it removed when a later step fails
clear_undoing(fault, u) ==
    LET s1 == repoDir /\ fault # "remove_repo"
        s2 == s1 /\ fault # "create_repo"
        s3 == s2 /\ metaDir /\ fault # "remove_metadata"
        s4 == s3 /\ fault # "create_metadata"
        upd == update(u[1], u[2])
        done(ok) == IF ok THEN "ok" ELSE "error"
        steps == << Step("remove_dir_all", "repo", done(s1)) >>
                 \o (IF s1 THEN << Step("create_dir", "repo", done(s2)) >>
                     ELSE <<>>)
                 \o (IF s2 THEN << Step("remove_dir_all", "metadata", done(s3)) >>
                     ELSE <<>>)
                 \o (IF s3 THEN << Step("create_dir", "metadata", done(s4)) >>
                     ELSE <<>>)
        repoT == ToolRepo(TRUE, Empty, unsigned, upd.trace)
    IN  IF s4
        THEN /\ repoDir' = TRUE
             /\ icons' = Empty
             /\ metaDir' = TRUE
             /\ repo' = repoT
             /\ index' = ToolIndex(TRUE, repoT, None, upd.trace)
             /\ metadata' = {}
             /\ last' = Call("clear", "", upd.res, steps \o upd.trace)
             /\ UNCHANGED <<unsignedKind, unsigned, configFile, created>>
        ELSE Return("clear", "", Err("File", ""), steps)

\* Repository::clear (a remove_dir_all of a directory that does not exist
\* fails)
clear(fault, u) ==
    LET s1 == repoDir /\ fault # "remove_repo"
        s2 == s1 /\ fault # "create_repo"
        s3 == s2 /\ metaDir /\ fault # "remove_metadata"
        s4 == s3 /\ fault # "create_metadata"
        upd == update(u[1], u[2])
        done(ok) == IF ok THEN "ok" ELSE "error"
        steps == << Step("remove_dir_all", "repo", done(s1)) >>
                 \o (IF s1 THEN << Step("create_dir", "repo", done(s2)) >>
                     ELSE <<>>)
                 \o (IF s2 THEN << Step("remove_dir_all", "metadata", done(s3)) >>
                     ELSE <<>>)
                 \o (IF s3 THEN << Step("create_dir", "metadata", done(s4)) >>
                     ELSE <<>>)
        repoT == ToolRepo(TRUE, Empty, unsigned, upd.trace)
    IN  /\ repoDir' = IF s1 THEN s2 ELSE repoDir
        /\ icons' = IF s1 THEN Empty ELSE icons
        /\ metaDir' = IF s3 THEN s4 ELSE metaDir
        /\ IF s4
           THEN /\ repo' = repoT
                /\ index' = ToolIndex(TRUE, repoT, None, upd.trace)
                /\ metadata' = {}
                /\ last' = Call("clear", "", upd.res, steps \o upd.trace)
           ELSE /\ repo' = IF s1 THEN Empty ELSE repo
                /\ index' = IF s1 THEN None ELSE index
                /\ metadata' = IF s3 THEN {} ELSE metadata
                /\ last' = Call("clear", "", Err("File", ""), steps)
        /\ UNCHANGED <<unsignedKind, unsigned, configFile, created>>

\* Repository::repo_path, metadata_path and config_path: the root joined
\* with a name; none of them looks at the file system
repo_path == [res |-> Ok, value |-> "repo"]

metadata_path == [res |-> Ok, value |-> "metadata"]

config_path == [res |-> Ok, value |-> "config.yml"]

\* Repository::unsigned_path: the Result and what unsigned/ is afterwards
unsigned_path(kind, fault) ==
    IF kind = "dir" THEN [res |-> Ok, kind |-> "dir"]
    ELSE IF kind = "file" THEN [res |-> Err("NotADirectory", ""), kind |-> kind]
    ELSE IF fault # "create_dir" THEN [res |-> Ok, kind |-> "dir"]
    ELSE [res |-> Err("File", ""), kind |-> kind]

\* Repository::sign_app; op is how the publish process ends
sign_app(file_path, fault, op, u) ==
    LET info == get_apk_info(file_path.content, fault # "spawn")
        apk_version == get_version_code(info.text)
        apk_name == get_name(info.text)
        dir == unsigned_path(unsignedKind, fault)
        target == UnsignedName(Unwrap(apk_name), Unwrap(apk_version))
        unsigned1 == With(unsigned, target, Unwrap(file_path.content))
        known == Unwrap(apk_name) \in metadata
        metadata1 == metadata \cup {Unwrap(apk_name)}
        staged == << Step("copy", target, "ok") >>
                  \o (IF known THEN <<>>
                      ELSE << Step("create_metadata", Unwrap(apk_name), "ok") >>)
        pub == publish(op)
        upd == update(u[1], u[2])
        fail(res, trace) ==
            /\ last' = Call("sign_app", file_path, res, trace)
            /\ UNCHANGED <<repoDir, repo, index, icons, metaDir, created,
                           configFile>>
    IN  IF IsErr(info.res)
        THEN fail(info.res, <<>>) /\ UNCHANGED <<metadata, unsignedKind, unsigned>>
        ELSE IF IsNone(apk_version)
        THEN /\ fail(Err("InvalidFile", "Version Code not found!"), <<>>)
             /\ UNCHANGED <<metadata, unsignedKind, unsigned>>
        ELSE IF IsNone(apk_name)
        THEN /\ fail(Err("InvalidFile", "Name not found!"), <<>>)
             /\ UNCHANGED <<metadata, unsignedKind, unsigned>>
        ELSE IF IsErr(dir.res)
        THEN fail(dir.res, <<>>) /\ UNCHANGED <<metadata, unsignedKind, unsigned>>
        ELSE IF fault = "copy"
        THEN /\ fail(Err("File", ""), << Step("copy", target, "error") >>)
             /\ unsignedKind' = dir.kind
             /\ UNCHANGED <<metadata, unsigned>>
        ELSE IF ~known /\ (~metaDir \/ fault = "create_metadata")
        THEN /\ fail(Err("File", ""),
                     << Step("copy", target, "ok"),
                        Step("create_metadata", Unwrap(apk_name), "error") >>)
             /\ unsignedKind' = dir.kind
             /\ unsigned' = unsigned1
             /\ UNCHANGED metadata
        ELSE IF IsErr(pub.res)
        THEN /\ fail(pub.res, staged \o pub.trace)
             /\ unsignedKind' = dir.kind
             /\ unsigned' = unsigned1
             /\ metadata' = metadata1
        ELSE /\ ToolEffects(repo, unsigned1, metadata1, pub.trace \o upd.trace)
             /\ unsignedKind' = dir.kind
             /\ last' = Call("sign_app", file_path, upd.res,
                             staged \o pub.trace \o upd.trace)
             /\ UNCHANGED <<repoDir, icons, metaDir, configFile, created>>

----------------------------------------------------------------------------
(* Config manager operations (config.rs) *)

\* write_to_config, had it updated first and written only after update
\* returned Ok
write_to_config_after_update(public_config, config_file, fault, u) ==
    LET upd == update(u[1], u[2])
    IN  IF IsErr(upd.res)
        THEN /\ ToolEffects(repo, unsigned, metadata, upd.trace)
             /\ last' = Call("set_config", public_config, upd.res, upd.trace)
             /\ UNCHANGED <<repoDir, icons, metaDir, unsignedKind, configFile,
                            created>>
        ELSE IF fault = "write"
        THEN /\ ToolEffects(repo, unsigned, metadata, upd.trace)
             /\ last' = Call("set_config", public_config, Err("File", ""),
                             upd.trace \o << Step("write", "config.yml", "error") >>)
             /\ UNCHANGED <<repoDir, icons, metaDir, unsignedKind, configFile,
                            created>>
        ELSE /\ configFile' = to_string(config_file)
             /\ ToolEffects(repo, unsigned, metadata, upd.trace)
             /\ last' = Call("set_config", public_config, upd.res,
                             upd.trace \o << Step("write", "config.yml", "ok") >>)
             /\ UNCHANGED <<repoDir, icons, metaDir, unsignedKind, created>>

\* Repository::write_to_config: write the document, then update
write_to_config(public_config, config_file, fault, u) ==
    LET upd == update(u[1], u[2])
    IN  IF fault = "write"
        THEN Return("set_config", public_config, Err("File", ""),
                    << Step("write", "config.yml", "error") >>)
        ELSE /\ configFile' = to_string(config_file)
             /\ ToolEffects(repo, unsigned, metadata, upd.trace)
             /\ last' = Call("set_config", public_config, upd.res,
                             << Step("write", "config.yml", "ok") >> \o upd.trace)
             /\ UNCHANGED <<repoDir, icons, metaDir, unsignedKind, created>>

\* Repository::set_config
set_config(public_config, fault, u) ==
    LET config_file == get_config(configFile, fault # "read")
    IN  IF IsErr(config_file.res)
        THEN Return("set_config", public_config, config_file.res, <<>>)
        ELSE write_to_config(public_config,
                 merge_with_public(config_file.value, public_config), fault, u)

\* Repository::config
config_call(fault) ==
    Return("config", "", config(configFile, fault # "read").res, <<>>)

\* set_image, had it copied the image without comparing the two extensions
set_image_unchecked(new_image, fault) ==
    LET path == image_path(configFile, fault # "read")
        copied == /\ fault # "copy"
                  /\ repoDir
                  /\ "icons" \in DOMAIN repo
                  /\ repo["icons"].kind = "dir"
    IN  IF IsErr(path.res) THEN Return("set_image", new_image, path.res, <<>>)
        ELSE IF ~copied
        THEN Return("set_image", new_image, Err("File", ""),
                    << Step("copy", "icon", "error") >>)
        ELSE /\ icons' = With(icons, path.value, new_image.content)
             /\ last' = Call("set_image", new_image, Ok,
                             << Step("copy", "icon", "ok") >>)
             /\ UNCHANGED <<repoDir, repo, index, metaDir, metadata,
                            unsignedKind, unsigned, configFile, created>>

\* Repository::set_image
set_image(new_image, fault) ==
    LET path == image_path(configFile, fault # "read")
        new_image_type == extension(new_image.name)
        current_image_type == extension(path.value)
        copied == /\ fault # "copy"
                  /\ repoDir
                  /\ "icons" \in DOMAIN repo
                  /\ repo["icons"].kind = "dir"
    IN  IF IsErr(path.res) THEN Return("set_image", new_image, path.res, <<>>)
        ELSE IF IsNone(new_image_type)
        THEN Return("set_image", new_image,
                    Err("InvalidFile", "Image does not have a file type"), <<>>)
        ELSE IF IsNone(current_image_type)
        THEN Return("set_image", new_image,
                    Err("InvalidFile", "Image does not have a file name"), <<>>)
        ELSE IF new_image_type # current_image_type
        THEN Return("set_image", new_image,
                    Err("InvalidFile", "Image type should be: "
                                           \o Debug(Unwrap(current_image_type))),
                    <<>>)
        ELSE IF ~copied
        THEN Return("set_image", new_image, Err("File", ""),
                    << Step("copy", "icon", "error") >>)
        ELSE /\ icons' = With(icons, path.value, new_image.content)
             /\ last' = Call("set_image", new_image, Ok,
                             << Step("copy", "icon", "ok") >>)
             /\ UNCHANGED <<repoDir, repo, index, metaDir, metadata,
                            unsignedKind, unsigned, configFile, created>>

\* Repository::apps
apps_call(fault) ==
    Return("apps", "", apps(index, fault # "read").res, <<>>)

----------------------------------------------------------------------------
(* Specifications *)

\* The package directory and its index: artifacts are added and deleted, one
\* call at a time.
Next ==
    \/ \E p \in AddPaths, s \in Scenarios(SomeRuns, {"copy"}, {"remove_file"}) :
            add_app(p, s[1], s[2])
    \/ \E n \in DeleteNames, s \in Scenarios(SomeRuns, {"remove_file"}, {}) :
            delete_app(n, s[1], s[2])
    \/ \E u \in UpdateRuns : update_call(u)
    \/ \E f \in {"none", "read"} : apps_call(f)

Spec == Init /\ [][Next]_vars

\* Every mutating operation of the library, each with few inputs.
NextOps ==
    \/ \E s \in Scenarios(FewRuns, {"copy"}, {"remove_file"}) :
            add_app(FirstPath, s[1], s[2])
    \/ \E n \in {AddNames[1], SignedName(1), "z.apk"},
          s \in Scenarios(FewRuns, {"remove_file"}, {}) :
            delete_app(n, s[1], s[2])
    \/ \E s \in Scenarios(FewRuns, {"remove_repo", "create_repo",
                                    "remove_metadata", "create_metadata"}, {}) :
            clear(s[1], s[2])
    \/ \E p \in SignPaths,
          s \in Scenarios(FewRuns, {"spawn", "create_dir", "copy",
                                    "create_metadata"}, {}),
          op \in {"exit_zero", "spawn_error"} :
            sign_app(p, s[1], op, s[2])
    \/ \E s \in Scenarios(FewRuns, {"read", "write"}, {}) :
            set_config(NameConfig, s[1], s[2])
    \/ \E i \in Images, f \in {"none", "read", "copy"} : set_image(i, f)

SpecOps == Init /\ [][NextOps]_vars

\* Signing: files with and without the text sign_app looks for are staged,
\* published and indexed, then deleted or cleared away.
NextSign ==
    \/ \E p \in SignPaths \cup NoMatchPaths,
          s \in Scenarios(FewRuns, {"spawn", "create_dir", "copy",
                                    "create_metadata"}, {}),
          op \in {"exit_zero", "spawn_error"} :
            sign_app(p, s[1], op, s[2])
    \/ \E n \in {SignedName(1), "z.apk"},
          s \in Scenarios(FewRuns, {"remove_file"}, {}) :
            delete_app(n, s[1], s[2])
    \/ \E s \in Scenarios(FewRuns, {"remove_repo", "create_repo",
                                    "remove_metadata", "create_metadata"}, {}) :
            clear(s[1], s[2])

SpecSign == Init /\ [][NextSign]_vars

\* what may lie at a path when it is resolved
EntryKinds == {"absent", "dir", "file"}

\* the calls of the path resolvers; `at` is the kind of the entry that lies
\* at the path, for unsigned/ the kind the state holds
repo_path_call(at) == Return("repo_path", at, repo_path.res, <<>>)

metadata_path_call(at) == Return("metadata_path", at, metadata_path.res, <<>>)

config_path_call(at) == Return("config_path", at, config_path.res, <<>>)

image_path_call(at, fault) ==
    Return("image_path", at, image_path(configFile, fault # "read").res, <<>>)

unsigned_path_call(fault) ==
    LET dir == unsigned_path(unsignedKind, fault)
    IN  /\ last' = Call("unsigned_path", unsignedKind, dir.res, <<>>)
        /\ unsignedKind' = dir.kind
        /\ UNCHANGED <<repoDir, repo, index, icons, metaDir, metadata,
                       unsigned, configFile, created>>

\* An open repository in which unsigned/ is absent, a directory or a file.
InitPaths ==
    /\ repoDir = TRUE
    /\ repo = [n \in {"icons"} |-> DirEntry]
    /\ index = None
    /\ icons = Empty
    /\ metaDir = TRUE
    /\ metadata = {}
    /\ unsignedKind \in EntryKinds
    /\ unsigned = Empty
    /\ configFile = InitDoc(TRUE)
    /\ created = Immutables(configFile)
    /\ last = Call("new", "", Ok, <<>>)

\* The path resolvers, called on a repository whose icon is configured.
NextPaths ==
    \/ \E at \in EntryKinds : repo_path_call(at)
    \/ \E at \in EntryKinds : metadata_path_call(at)
    \/ \E at \in EntryKinds : config_path_call(at)
    \/ \E at \in EntryKinds, f \in {"none", "read"} : image_path_call(at, f)
    \/ \E f \in {"none", "create_dir"} : unsigned_path_call(f)
    \/ \E c \in IconConfigs : set_config(c, "none", <<"exit_zero", "exit_zero">>)

SpecPaths == InitPaths /\ [][NextPaths]_vars

\* The configuration file alone, written with many public configurations.
NextConfig ==
    \/ \E c \in Configs, s \in Scenarios(FewRuns, {"read", "write"}, {}) :
            set_config(c, s[1], s[2])
    \/ \E f \in {"none", "read"} : config_call(f)

SpecConfig == InitConfig /\ [][NextConfig]_vars

\* The icon of the repository: its name is configured and its file replaced.
NextImage ==
    \/ \E c \in IconConfigs, s \in Scenarios(FewRuns, {"read", "write"}, {}) :
            set_config(c, s[1], s[2])
    \/ \E i \in ManyImages, f \in {"none", "read", "copy"} : set_image(i, f)

SpecImage == Init /\ [][NextImage]_vars

\* Opening and initializing a repository, before any artifact is added.
NextNew ==
    \/ \E k \in {"dir", "file", "absent"}, w \in BOOLEAN,
          oi \in Outcomes, u \in UpdateRuns : new(k, w, oi, u)
    \/ \E w \in BOOLEAN, oi \in Outcomes, u \in UpdateRuns :
            initialize(w, oi, u)
    \/ \E u \in FewRuns : update_call(u)
    \/ \E f \in {"none", "read"} : apps_call(f)

SpecNew == InitNew /\ [][NextNew]_vars

\* The index parser, applied to the index documents.
NextParse == \E f \in {"none", "read"} : apps_call(f)

SpecParse == InitParse /\ [][NextParse]_vars

----------------------------------------------------------------------------
(* Reading the trace of the last call *)

IsUpdateRun(st) ==
    st.step = "run" /\ st.what \in {"fdroid update -c", "fdroid update"}

\* update was called: its first process was run
UpdateCalledAt(trace, i) ==
    trace[i].step = "run" /\ trace[i].what = "fdroid update -c"

\* update returned an error: one of its processes gave no exit status
UpdateFailed(trace) ==
    \E i \in 1..Len(trace) :
        IsUpdateRun(trace[i]) /\ trace[i].out \in {"spawn_error", "wait_error"}

\* step i changed the file system
MutatedAt(trace, i) ==
    /\ trace[i].step \in {"copy", "remove_file", "remove_dir_all",
                           "create_dir", "write", "create_metadata"}
    /\ trace[i].out = "ok"

\* the call changed the file system
Mutated(trace) == \E i \in 1..Len(trace) : MutatedAt(trace, i)

\* the first step that did
FirstMutation(trace) ==
    CHOOSE i \in 1..Len(trace) :
        MutatedAt(trace, i) /\ \A m \in 1..(i - 1) : ~MutatedAt(trace, m)

\* step i met an error: a file-system call failed, or run returned Err
FailedAt(trace, i) ==
    \/ trace[i].out = "error"
    \/ trace[i].step = "run" /\ trace[i].out \in {"spawn_error", "wait_error"}

\* the regular files of a package directory, with their contents
Artifacts(repoX) ==
    [n \in {m \in DOMAIN repoX : repoX[m].kind = "file"} |-> repoX[n].content]

\* object obj has field key, of kind kind
HasField(obj, key, kind) ==
    /\ obj.k = "obj"
    /\ key \in DOMAIN obj.o
    /\ obj.o[key].k = kind

\* the index document has an apps array and a packages value
HasCollections(doc) ==
    HasField(doc, "apps", "arr") /\ IsSome(get(doc, "packages"))

\* an app record with every required field, each of its kind, and an entry
\* for its packageName in the packages mapping
AppRecordOk(app, packages) ==
    /\ \A f \in DOMAIN AppFieldKind : HasField(app, f, AppFieldKind[f])
    /\ IsSome(get(packages, app.o.packageName.s))

\* a package record with every required field, each of its kind
PackageRecordOk(pkg) ==
    \A f \in DOMAIN PackageFieldKind : HasField(pkg, f, PackageFieldKind[f])

\* the package records of app record app, which is AppRecordOk
RecordsOf(app, packages) == Unwrap(get(packages, app.o.packageName.s))

\* every app record of the document is AppRecordOk and has an array of
\* package records that are PackageRecordOk
RequiredFieldsOk(doc) ==
    /\ HasCollections(doc)
    /\ \A i \in 1..Len(doc.o.apps.a) :
          /\ AppRecordOk(doc.o.apps.a[i], doc.o.packages)
          /\ RecordsOf(doc.o.apps.a[i], doc.o.packages).k = "arr"
          /\ \A j \in 1..Len(RecordsOf(doc.o.apps.a[i], doc.o.packages).a) :
                PackageRecordOk(RecordsOf(doc.o.apps.a[i], doc.o.packages).a[j])

\* the field of Package that holds each optional field of a package record
OptionalName ==
    [ nativecode |-> "nativecode", minSdkVersion |-> "min_sdk_version",
      maxSdkVersion |-> "max_sdk_version",
      targetSdkVersion |-> "target_sdk_version", sig |-> "sig",
      signer |-> "signer", versionCode |-> "version_code" ]

\* the entries of the permission list of a package record (none when the
\* field is absent or no array)
PermissionsOf(pkg) ==
    IF HasField(pkg, "uses-permission", "arr")
    THEN pkg.o["uses-permission"].a ELSE <<>>

\* a permission entry that is an array of exactly two elements, the first a
\* string
EntryIsPair(entry) ==
    /\ entry.k = "arr"
    /\ Len(entry.a) = 2
    /\ entry.a[1].k = "str"

\* no nativecode array of the document holds an element that is no string
NativecodeOk(doc) ==
    \A i \in 1..Len(doc.o.apps.a) :
        LET recs == RecordsOf(doc.o.apps.a[i], doc.o.packages).a
        IN  \A j \in 1..Len(recs) :
                HasField(recs[j], "nativecode", "arr") =>
                    \A n \in 1..Len(recs[j].o.nativecode.a) :
                        recs[j].o.nativecode.a[n].k = "str"

LifecycleOps == {"add_app", "delete_app", "clear", "sign_app", "set_config"}

----------------------------------------------------------------------------
(* Claims *)

\* C1: whenever add_app copied the artifact and the update that followed
\* failed, add_app returns the update-failed error.
C1_AddAppSurfacesUpdateError ==
    ( /\ last.op = "add_app"
      /\ \E i \in 1..Len(last.trace) :
            last.trace[i].step = "copy" /\ last.trace[i].out = "ok"
      /\ UpdateFailed(last.trace) )
        => last.res = Err("Update", "")

\* C2: when the update of add_app fails (and no file-system call of add_app
\* meets an I/O error), the package directory holds after the call exactly
\* the artifacts, names and contents, it held before the call.
C2_AddAppRestoresPackageDir ==
    [][ ( /\ last'.op = "add_app"
          /\ UpdateFailed(last'.trace)
          /\ \A i \in 1..Len(last'.trace) : last'.trace[i].out # "error" )
            => Artifacts(repo') = Artifacts(repo) ]_vars

\* C3: update returns Ok only if every fdroid process it ran exited with
\* status 0; a process that exits with a nonzero status makes it return the
\* update-failed error.
C3_NonzeroExitIsFailure ==
    last.op = "update" =>
        /\ IsOk(last.res) =>
              \A i \in 1..Len(last.trace) : last.trace[i].out = "exit_zero"
        /\ (\E i \in 1..Len(last.trace) : last.trace[i].out = "exit_nonzero")
              => last.res = Err("Update", "")

\* C4: whatever set_config calls were made, successful or failing, the
\* immutable fields stored in config.yml are those of the repository's
\* creation.
C4_ImmutableFieldsPreserved == Immutables(configFile) = created

\* a set_config that wrote public fields over a document with all seven
\* immutable fields, and succeeded
C4_Witness ==
    /\ last.op = "set_config"
    /\ IsOk(last.res)
    /\ DOMAIN created = ImmutableKeys
    /\ "repo_name" \in DOMAIN configFile

\* C5: right after a successful set_config(cfg), config() returns Ok with a
\* value equal to cfg.
C5_ConfigRoundTrip ==
    (last.op = "set_config" /\ IsOk(last.res)) =>
        /\ IsOk(config(configFile, TRUE).res)
        /\ config(configFile, TRUE).value = last.arg

\* a successful set_config of a configuration with set and absent fields
C5_Witness ==
    /\ last.op = "set_config"
    /\ IsOk(last.res)
    /\ IsSome(last.arg.repo_icon)
    /\ IsSome(last.arg.archive_older)
    /\ IsNone(last.arg.archive_icon)
    /\ config(configFile, TRUE).value = last.arg

C7_SetImageUpdates ==
    ( /\ last.op = "set_image"
      /\ Mutated(last.trace) )
        => \E j \in 1..Len(last.trace) : UpdateCalledAt(last.trace, j)

\* C8: delete_app of a name with no entry in the package directory returns
\* Ok, runs no process and changes nothing on disk; apps() returns after it
\* what it returned before it.
C8_DeleteMissingIsNoOp ==
    [][ ( /\ last'.op = "delete_app"
          /\ ~(repoDir /\ last'.arg \in DOMAIN repo) )
            => /\ IsOk(last'.res)
               /\ \A i \in 1..Len(last'.trace) : last'.trace[i].step # "run"
               /\ UNCHANGED fsVars
               /\ apps(index', TRUE) = apps(index, TRUE) ]_vars

\* a delete_app of a missing name on a repository that lists an app
C8_Witness ==
    /\ last.op = "delete_app"
    /\ Len(last.trace) = 1
    /\ last.trace[1].step = "warn"
    /\ IsOk(last.res)
    /\ Len(apps(index, TRUE).list) > 0

C10_DeleteSolePackageEmptiesApps ==
    ( /\ last.op = "delete_app"
      /\ IsOk(last.res)
      /\ Mutated(last.trace)
      /\ Updated(last.trace)
      /\ Artifacts(repo) = Empty )
        => apps(index, TRUE) = [res |-> Ok, list |-> <<>>]

\* such a delete_app, both processes of update exiting with 0
C10_Witness ==
    /\ last.op = "delete_app"
    /\ IsOk(last.res)
    /\ Len(last.trace) = 3
    /\ MutatedAt(last.trace, 1)
    /\ last.trace[2].out = "exit_zero"
    /\ last.trace[3].out = "exit_zero"
    /\ Artifacts(repo) = Empty
    /\ apps(index, TRUE).list = <<>>

\* C11: before any artifact is added, a repository that Repository::new
\* opened has an empty app list: apps() returns Ok and no app; and whenever
\* index-v1.json is absent, apps() returns Ok and no app, whether or not
\* files can be read.
C11_FreshRepositoryHasNoApps ==
    /\ (last.op = "new" /\ IsOk(last.res)) =>
            apps(index, TRUE) = [res |-> Ok, list |-> <<>>]
    /\ IsNone(index) =>
            \A readOk \in BOOLEAN :
                apps(index, readOk) = [res |-> Ok, list |-> <<>>]

\* a new on an empty directory whose three processes exited with 0, the
\* index written and listing no app
C11_Witness ==
    /\ last.op = "new"
    /\ IsOk(last.res)
    /\ Len(last.trace) = 3
    /\ \A i \in 1..3 : last.trace[i].out = "exit_zero"
    /\ IsSome(index)
    /\ apps(index, TRUE) = [res |-> Ok, list |-> <<>>]

\* C12: a sign_app on a freshly opened repository that returns Ok, every
\* process it ran (publish, update -c, update) having exited with 0, leaves
\* an index from which apps() returns exactly one app, with exactly one
\* package.
C12_SignOnFreshRepositoryListsOneApp ==
    [][ ( /\ last.op = "new"
          /\ last'.op = "sign_app"
          /\ IsOk(last'.res)
          /\ \A i \in 1..Len(last'.trace) :
                last'.trace[i].step = "run" => last'.trace[i].out = "exit_zero" )
            => /\ IsOk(apps(index', TRUE).res)
               /\ Len(apps(index', TRUE).list) = 1
               /\ Len(apps(index', TRUE).list[1].packages) = 1 ]_vars

\* such a sign_app: the artifact was staged, published and indexed, and is
\* the only one of the package directory
C12_Witness ==
    /\ last.op = "sign_app"
    /\ IsOk(last.res)
    /\ Len(last.trace) >= 4
    /\ MutatedAt(last.trace, 1)
    /\ Ran(last.trace, "fdroid publish")
    /\ Ran(last.trace, "fdroid update")
    /\ DOMAIN Artifacts(repo) = {UnsignedName(Apk(1).pkg, Apk(1).vc)}
    /\ Len(apps(index, TRUE).list) = 1
    /\ Len(apps(index, TRUE).list[1].packages) = 1

\* C13: when apps() reads an index in which some app record lacks a required
\* field, has one of another kind, or names a packageName without an entry
\* in the packages mapping, it returns the JsonConvert error and no app,
\* whatever the other app records are.
C13_IndexParsingIsAllOrNothing ==
    ( /\ last.op = "apps"
      /\ last.res # Err("File", "")
      /\ IsSome(index)
      /\ HasCollections(Unwrap(index))
      /\ \E i \in 1..Len(Unwrap(index).o.apps.a) :
            ~AppRecordOk(Unwrap(index).o.apps.a[i], Unwrap(index).o.packages) )
        => /\ last.res = Err("JsonConvert",
                             "Could not map repository index file!")
           /\ apps(index, TRUE).list = <<>>

\* apps() failed on an index whose first app is well-formed and whose second
\* app has no license
C13_Witness ==
    /\ last.op = "apps"
    /\ last.res = Err("JsonConvert", "Could not map repository index file!")
    /\ IsSome(index)
    /\ HasCollections(Unwrap(index))
    /\ Len(Unwrap(index).o.apps.a) >= 2
    /\ AppRecordOk(Unwrap(index).o.apps.a[1], Unwrap(index).o.packages)
    /\ IsSome(App_of(Unwrap(index).o.apps.a[1], Unwrap(index).o.packages))
    /\ Unwrap(index).o.apps.a[2].k = "obj"
    /\ "license" \notin DOMAIN Unwrap(index).o.apps.a[2].o

\* C14: when apps() reads an index whose app records and package records
\* have their required fields, and whose permission lists are absent or
\* well-formed, it returns Ok whatever the optional fields of the package
\* records are (a nativecode array with an element that is no string
\* included), and every optional field that is absent or of another kind is
\* absent (nativecode: empty) in the Package.
C14_OptionalFieldsNeverFail ==
    ( /\ last.op = "apps"
      /\ last.res # Err("File", "")
      /\ IsSome(index)
      /\ RequiredFieldsOk(Unwrap(index))
      /\ \A i \in 1..Len(Unwrap(index).o.apps.a) :
            LET recs == RecordsOf(Unwrap(index).o.apps.a[i],
                                  Unwrap(index).o.packages).a
            IN  \A j \in 1..Len(recs) :
                    get(recs[j], "uses-permission")
                        \in {None, Some(GoodPermissions)} )
        => /\ IsOk(last.res)
           /\ \A i \in 1..Len(Unwrap(index).o.apps.a) :
                 LET recs == RecordsOf(Unwrap(index).o.apps.a[i],
                                       Unwrap(index).o.packages).a
                     pkgs == apps(index, TRUE).list[i].packages
                 IN  /\ Len(pkgs) = Len(recs)
                     /\ \A j \in 1..Len(recs), f \in DOMAIN OptionalFields :
                           ~HasField(recs[j], f, OptionalFields[f].k)
                               => pkgs[j][OptionalName[f]] = <<>>

\* C15: when apps() reads an index that is well-formed but for its
\* permission lists: if some entry of a permission list is not an array of
\* exactly two elements with a string first, apps() returns the JsonConvert
\* error; otherwise it returns Ok, and an entry whose second element is no
\* number has no max-version.
C15_PermissionEntriesArePairs ==
    ( /\ last.op = "apps"
      /\ last.res # Err("File", "")
      /\ IsSome(index)
      /\ RequiredFieldsOk(Unwrap(index))
      /\ NativecodeOk(Unwrap(index)) )
        => LET doc == Unwrap(index)
               recsOf(i) == RecordsOf(doc.o.apps.a[i], doc.o.packages).a
               malformed ==
                   \E i \in 1..Len(doc.o.apps.a) :
                       \E j \in 1..Len(recsOf(i)) :
                           \E e \in 1..Len(PermissionsOf(recsOf(i)[j])) :
                               ~EntryIsPair(PermissionsOf(recsOf(i)[j])[e])
           IN  IF malformed
               THEN last.res = Err("JsonConvert",
                                   "Could not map repository index file!")
               ELSE /\ IsOk(last.res)
                    /\ \A i \in 1..Len(doc.o.apps.a) :
                          \A j \in 1..Len(recsOf(i)) :
                            LET given == PermissionsOf(recsOf(i)[j])
                                got == apps(index, TRUE).list[i].packages[j]
                                           .uses_permission
                            IN  /\ Len(got) = Len(given)
                                /\ \A e \in 1..Len(given) :
                                      /\ got[e][1] = given[e].a[1].s
                                      /\ given[e].a[2].k # "int"
                                            => got[e][2] = None

\* C16: every App of a list that apps() returned with Ok has a package
\* identifier that is not empty, has at least one Package, and has a Package
\* with its package identifier.
C16_AppsHaveTheirPackages ==
    (last.op = "apps" /\ IsOk(last.res)) =>
        \A i \in 1..Len(apps(index, TRUE).list) :
            LET app == apps(index, TRUE).list[i]
            IN  /\ app.package_name # ""
                /\ Len(app.packages) >= 1
                /\ \E j \in 1..Len(app.packages) :
                      app.packages[j].package_name = app.package_name

\* the file name of the icon that a configuration document asks for
IconName(doc) ==
    IF "repo_icon" \in DOMAIN doc THEN doc.repo_icon ELSE <<"icon", "png">>

\* a call of set_image whose configuration was read, with an image and an
\* icon that both have an extension
TypedImageCall ==
    /\ last'.op = "set_image"
    /\ last'.res.tag # "File"
    /\ IsSome(extension(last'.arg.name))
    /\ IsSome(extension(IconName(configFile)))

\* C17: set_image with an image whose extension is not the extension of
\* the configured icon fails with InvalidFile, the reason names the
\* extension expected, and the icon files are left as they were.
C17_OtherExtensionIsRejected ==
    [][ (/\ TypedImageCall
         /\ extension(last'.arg.name) # extension(IconName(configFile)))
        => /\ last'.res =
                 Err("InvalidFile",
                     "Image type should be: \""
                         \o Unwrap(extension(IconName(configFile))) \o "\"")
           /\ last'.trace = <<>>
           /\ icons' = icons ]_vars

C17_Witness ==
    /\ last.op = "set_image"
    /\ last.arg.name = <<"new", "png">>
    /\ last.res = Err("InvalidFile", "Image type should be: \"jpg\"")
    /\ IconName(configFile) = <<"logo", "jpg">>
    /\ <<"logo", "jpg">> \in DOMAIN icons

\* C18: set_image with an image whose extension is the extension of the
\* configured icon, and no error of the file system, returns Ok, and the
\* icon file then holds the content of the image whatever it held before.
C18_SameExtensionOverwrites ==
    [][ (/\ TypedImageCall
         /\ extension(last'.arg.name) = extension(IconName(configFile)))
        => /\ IsOk(last'.res)
           /\ IconName(configFile) \in DOMAIN icons'
           /\ icons'[IconName(configFile)] = last'.arg.content
           /\ \A n \in DOMAIN icons \ {IconName(configFile)} :
                 n \in DOMAIN icons' /\ icons'[n] = icons[n] ]_vars

C18_Witness ==
    /\ last.op = "set_image"
    /\ IsOk(last.res)
    /\ last.arg = [name |-> <<"new", "jpg">>, content |-> 2]
    /\ IconName(configFile) = <<"logo", "jpg">>
    /\ <<"icon", "png">> \in DOMAIN icons
    /\ icons[<<"logo", "jpg">>] = 2

\* C19: initialize runs `fdroid init` first; if that process fails, whatever
\* the cause, initialize returns Init and runs no update; if it succeeds,
\* update is run next and an update that fails is returned as Update.
C19_InitializeMapsFailures ==
    last.op = "initialize" =>
        /\ Len(last.trace) >= 1
        /\ last.trace[1].step = "run" /\ last.trace[1].what = "fdroid init"
        /\ last.trace[1].out # "exit_zero" =>
              last.res = Err("Init", "") /\ Len(last.trace) = 1
        /\ last.trace[1].out = "exit_zero" =>
              /\ Len(last.trace) >= 2
              /\ UpdateCalledAt(last.trace, 2)
              /\ UpdateFailed(last.trace) => last.res = Err("Update", "")

\* the text has an item attr='value' whose value is one or more characters
\* of class
HasItem(text, attr, class) ==
    \E i \in 1..Len(text) :
        /\ text[i].attr = attr
        /\ Len(text[i].val) >= 1
        /\ \A j \in 1..Len(text[i].val) : text[i].val[j] \in class

HasVersionCode(text) == HasItem(text, "versionCode", DigitChars)

HasName(text) == HasItem(text, "name", AlphaChars \cup {"."})

\* a call of sign_app on a regular file that aapt was run on
DumpedSignCall ==
    /\ last'.op = "sign_app"
    /\ IsSome(last'.arg.content)
    /\ last'.res # Err("InvalidFile", "")

\* C20: when the text aapt prints has no version code or no name, sign_app
\* returns InvalidFile with the reason that names the missing item, the
\* version code first, and has done nothing by then: no file is staged, no
\* metadata record created, no directory made and no process run.
C20_NoCodeOrNameFailsFirst ==
    [][ LET text == Badging(Unwrap(last'.arg.content))
        IN  (DumpedSignCall /\ ~(HasVersionCode(text) /\ HasName(text)))
            => /\ last'.res =
                     Err("InvalidFile",
                         IF ~HasVersionCode(text) THEN "Version Code not found!"
                         ELSE "Name not found!")
               /\ last'.trace = <<>>
               /\ UNCHANGED fsVars ]_vars

C20_Witness ==
    /\ last.op = "sign_app"
    /\ last.arg.content = Some(-3)
    /\ last.res = Err("InvalidFile", "Name not found!")
    /\ last.trace = <<>>
    /\ unsignedKind = "absent"

\* the kind of entry each resolved path is expected to be
ExpectedKind ==
    [ repo_path |-> "dir", metadata_path |-> "dir", unsigned_path |-> "dir",
      config_path |-> "file", image_path |-> "file" ]

\* C21: a path resolver called while an entry of the wrong kind lies at the
\* path (a file for a directory, a directory for a file) fails with
\* NotADirectory or NotAFile instead of returning the path.
C21_ResolversCheckEntryKind ==
    ( /\ last.op \in DOMAIN ExpectedKind
      /\ last.arg \in EntryKinds \ {"absent", ExpectedKind[last.op]}
      /\ last.res.tag # "File" )
        => last.res.tag = IF ExpectedKind[last.op] = "dir"
                          THEN "NotADirectory" ELSE "NotAFile"

C23_UpdateRunsCleanThenPlain ==
    last.op = "update" =>
        /\ Len(last.trace) \in {1, 2}
        /\ last.trace[1].step = "run"
        /\ last.trace[1].what = "fdroid update -c"
        /\ Len(last.trace) = 2 <=> last.trace[1].out = "exit_zero"
        /\ Len(last.trace) = 2 =>
              last.trace[2].step = "run" /\ last.trace[2].what = "fdroid update"
        /\ IF \A i \in 1..Len(last.trace) : last.trace[i].out = "exit_zero"
           THEN IsOk(last.res)
           ELSE last.res = Err("Update", "")

\* the position of the publish process in a trace, 0 if none was run
PublishAt(trace) ==
    LET at == {j \in 1..Len(trace) :
                  trace[j].step = "run" /\ trace[j].what = "fdroid publish"}
    IN  IF at = {} THEN 0 ELSE CHOOSE j \in at : TRUE

\* what sign_app staged and created in the call is still on disk: the file
\* it copied lies in unsigned/, or in the package directory once the tool
\* published it, and the metadata record it created is there
LeftoversInPlace ==
    /\ \A i \in 1..Len(last.trace) :
          (last.trace[i].step = "copy" /\ last.trace[i].out = "ok") =>
              \/ /\ last.trace[i].what \in DOMAIN unsigned
                 /\ Some(unsigned[last.trace[i].what]) = last.arg.content
              \/ /\ Ran(last.trace, "fdroid publish")
                 /\ last.trace[i].what \in DOMAIN repo
    /\ \A i \in 1..Len(last.trace) :
          (last.trace[i].step = "create_metadata" /\ last.trace[i].out = "ok")
              => last.trace[i].what \in metadata

C25_DeleteOfNonFileIsRejected ==
    [][ ( /\ last'.op = "delete_app"
          /\ repoDir
          /\ last'.arg \in DOMAIN repo
          /\ repo[last'.arg].kind # "file" )
            => /\ last'.res = Err("NotAFile", "")
               /\ last'.trace = <<>>
               /\ UNCHANGED fsVars ]_vars

\* a delete_app of the directory icons, refused while an artifact is there
C25_Witness ==
    /\ last.op = "delete_app"
    /\ last.arg = "icons"
    /\ last.res = Err("NotAFile", "")
    /\ "icons" \in DOMAIN repo
    /\ repo["icons"].kind = "dir"
    /\ Artifacts(repo) # Empty

\* the file-system steps of clear, in the order of the code
ClearPlan ==
    << <<"remove_dir_all", "repo">>, <<"create_dir", "repo">>,
       <<"remove_dir_all", "metadata">>, <<"create_dir", "metadata">> >>

\* how many steps of a trace are no runs of the tool
FsSteps(trace) == Cardinality({i \in 1..Len(trace) : trace[i].step # "run"})

\* C26: clear removes and recreates the package directory, then the
\* metadata directory, then updates, so that update runs on two empty
\* directories; the first file-system step that fails ends the call with its
\* error, without update and with the earlier steps left as they are (the
\* package directory emptied when removing the metadata directory fails).
\* update is taken to fail when it returns an error.
C26_ClearStopsAtFirstFailure ==
    [][ last'.op = "clear" =>
          LET t == last'.trace
              n == FsSteps(t)
          IN  /\ n \in 1..4
              /\ \A i \in 1..n : /\ t[i].step = ClearPlan[i][1]
                                 /\ t[i].what = ClearPlan[i][2]
              /\ \A i \in 1..(n - 1) : t[i].out = "ok"
              /\ t[n].out = "error" =>
                    /\ last'.res = Err("File", "")
                    /\ Len(t) = n
                    /\ n >= 2 => repo' = Empty /\ repoDir' = (n >= 3)
                    /\ n = 4 => metadata' = {} /\ ~metaDir'
                    /\ n <= 3 => metadata' = metadata /\ metaDir' = metaDir
              /\ t[n].out = "ok" =>
                    /\ n = 4
                    /\ Len(t) > n
                    /\ IsUpdateRun(t[n + 1])
                    /\ repoDir' /\ metaDir' /\ metadata' = {}
                    /\ repo' = ToolRepo(TRUE, Empty, unsigned,
                                        SubSeq(t, n + 1, Len(t)))
                    /\ UpdateFailed(t) => last'.res = Err("Update", "")
                    /\ IsOk(last'.res) => ~UpdateFailed(t) ]_vars

\* a clear that emptied the package directory and then could not remove the
\* metadata directory, whose records are still there
C26_Witness ==
    /\ last.op = "clear"
    /\ Len(last.trace) = 3
    /\ last.trace[3] = Step("remove_dir_all", "metadata", "error")
    /\ last.res = Err("File", "")
    /\ repoDir
    /\ repo = Empty
    /\ metadata # {}

-----------------------------------------------------------------------------
(* Two calls of add_app in flight at once (app.rs 239-268).  Nothing in    *)
(* the library takes a lock, so the steps of the two calls interleave:     *)
(* the copy, each process of update, and the clean-up with the return.     *)
(* Here `last` holds both calls: arg, res and trace are pairs, one entry   *)
(* per caller; res is None while the call runs and a caller's trace, the   *)
(* steps it has taken, is its position in add_app.                         *)

Callers == {1, 2}

\* both callers add a file named x.apk, with different contents
SecondPath == Path(Some(AddNames[1]), Some(2))

RacePaths == <<FirstPath, SecondPath>>

RaceName == Unwrap(FirstPath.file_name)

\* the processes of update a caller has run so far
UpdateRunsOf(trace) == SelectSeq(trace, IsUpdateRun)

\* what self.update() returned to a caller whose update has run `runs`
UpdateResultOf(runs) == update(runs[1].out, runs[Len(runs)].out).res

\* fs::copy returned Ok and update is still to return
InUpdate(trace) ==
    /\ trace # <<>>
    /\ trace[Len(trace)].step \in {"copy", "run"}
    /\ trace[Len(trace)].step = "copy" => trace[Len(trace)].out = "ok"
    /\ trace[Len(trace)].step = "run" =>
            /\ Len(UpdateRunsOf(trace)) = 1
            /\ IsOk(run("update", <<"-c">>, trace[Len(trace)].out).res)

\* update has returned and the clean-up is still to come
AfterUpdate(trace) ==
    /\ trace # <<>>
    /\ trace[Len(trace)].step = "run"
    /\ ~InUpdate(trace)

\* add_app up to fs::copy (app.rs 242-256)
add_app_copy(p, fault) ==
    LET name == Unwrap(RacePaths[p].file_name)
        existed == repoDir /\ name \in DOMAIN repo
        warned == IF existed
                  THEN << Step("warn", "File already exists", name) >>
                  ELSE <<>>
        copied == /\ fault # "copy"
                  /\ IsSome(RacePaths[p].content)
                  /\ repoDir
                  /\ existed => repo[name].kind = "file"
    IN  /\ last.trace[p] = <<>>
        /\ IF copied
           THEN /\ repo' = With(repo, name,
                                FileEntry(Unwrap(RacePaths[p].content)))
                /\ last' = [last EXCEPT !.trace[p] =
                                warned \o << Step("copy", name, "ok") >>]
           ELSE /\ repo' = repo
                /\ last' = [last EXCEPT
                                !.res[p] = Some(Err("File", "")),
                                !.trace[p] =
                                    warned \o << Step("copy", name, "error") >>]
        /\ UNCHANGED <<repoDir, index, icons, metaDir, metadata, unsignedKind,
                       unsigned, configFile, created>>

\* the next process of the caller's update (app.rs 259, mod.rs 84-89)
add_app_update(p, outcome) ==
    LET args == IF UpdateRunsOf(last.trace[p]) = <<>> THEN <<"-c">> ELSE <<>>
        ran == run("update", args, outcome)
    IN  /\ IsNone(last.res[p])
        /\ InUpdate(last.trace[p])
        /\ ToolEffects(repo, unsigned, metadata, ran.trace)
        /\ last' = [last EXCEPT !.trace[p] = @ \o ran.trace]
        /\ UNCHANGED <<repoDir, icons, metaDir, unsignedKind, configFile,
                       created>>

\* add_app_cleanup, had it removed the file whatever update returned
add_app_cleanup_always(p, fault) ==
    LET name == Unwrap(RacePaths[p].file_name)
        cleanup == /\ repoDir
                   /\ name \in DOMAIN repo
                   /\ repo[name].kind = "file"
    IN  /\ IsNone(last.res[p])
        /\ AfterUpdate(last.trace[p])
        /\ IF cleanup /\ fault # "remove_file"
           THEN /\ repo' = Without(repo, name)
                /\ last' = [last EXCEPT
                                !.res[p] = Some(Ok),
                                !.trace[p] =
                                    @ \o << Step("remove_file", name, "ok") >>]
           ELSE /\ repo' = repo
                /\ last' = [last EXCEPT !.res[p] = Some(Ok)]
        /\ UNCHANGED <<repoDir, index, icons, metaDir, metadata, unsignedKind,
                       unsigned, configFile, created>>

\* the clean-up of add_app and its return (app.rs 262-266)
add_app_cleanup(p, fault) ==
    LET name == Unwrap(RacePaths[p].file_name)
        update_result == UpdateResultOf(UpdateRunsOf(last.trace[p]))
        cleanup == /\ IsErr(update_result)
                   /\ repoDir
                   /\ name \in DOMAIN repo
                   /\ repo[name].kind = "file"
    IN  /\ IsNone(last.res[p])
        /\ AfterUpdate(last.trace[p])
        /\ IF cleanup /\ fault # "remove_file"
           THEN /\ repo' = Without(repo, name)
                /\ last' = [last EXCEPT
                                !.res[p] = Some(Ok),
                                !.trace[p] =
                                    @ \o << Step("remove_file", name, "ok") >>]
           ELSE IF cleanup
           THEN /\ repo' = repo
                /\ last' = [last EXCEPT
                                !.res[p] = Some(Err("File", "")),
                                !.trace[p] =
                                    @ \o << Step("remove_file", name, "error") >>]
           ELSE /\ repo' = repo
                /\ last' = [last EXCEPT !.res[p] = Some(Ok)]
        /\ UNCHANGED <<repoDir, index, icons, metaDir, metadata, unsignedKind,
                       unsigned, configFile, created>>

\* An open repository and two callers about to call add_app.
InitRace ==
    /\ repoDir = TRUE
    /\ repo = [n \in {"icons"} |-> DirEntry]
    /\ index \in {None, Some(GenIndex(repo))}
    /\ icons = Empty
    /\ metaDir = TRUE
    /\ metadata = {}
    /\ unsignedKind = "absent"
    /\ unsigned = Empty
    /\ configFile = InitDoc(TRUE)
    /\ created = Immutables(configFile)
    /\ last = Call("add_app", RacePaths, <<None, None>>, << <<>>, <<>> >>)

NextRace ==
    \/ \E p \in Callers, f \in {"none", "copy"} : add_app_copy(p, f)
    \/ \E p \in Callers, o \in Outcomes : add_app_update(p, o)
    \/ \E p \in Callers, f \in {"none", "remove_file"} : add_app_cleanup(p, f)

SpecRace == InitRace /\ [][NextRace]_vars

\* caller p removed the file it had copied
Compensated(trace) ==
    \E i \in 1..Len(trace) : trace[i] = Step("remove_file", RaceName, "ok")

\* caller p copied its file, saw update return Ok and returned Ok
Succeeded(p) ==
    /\ last.res[p] = Some(Ok)
    /\ \E i \in 1..Len(last.trace[p]) :
            last.trace[p][i] = Step("copy", RaceName, "ok")
    /\ ~UpdateFailed(last.trace[p])

\* C27: with two add_app calls of one file name interleaved, a call can
\* return Ok after a successful update while its artifact is gone, and that
\* happens only through the other call's clean-up, run after that call's own
\* update returned an error.
C27_CompensationRemovesOthersArtifact ==
    \A p \in Callers :
        (Succeeded(p) /\ RaceName \notin DOMAIN repo)
            => /\ Compensated(last.trace[3 - p])
               /\ UpdateFailed(last.trace[3 - p])
               /\ ~Compensated(last.trace[p])

\* both calls returned Ok, the update of the first failed and that of the
\* second ran both processes to exit status 0, and x.apk is not there: the
\* first call's clean-up came after the second call's copy
C27_Witness ==
    /\ last.op = "add_app"
    /\ last.arg = RacePaths
    /\ last.res = <<Some(Ok), Some(Ok)>>
    /\ Compensated(last.trace[1])
    /\ UpdateFailed(last.trace[1])
    /\ Succeeded(2)
    /\ Ran(last.trace[2], "fdroid update -c")
    /\ Ran(last.trace[2], "fdroid update")
    /\ RaceName \notin DOMAIN repo

\* C28: set_config writes the merged configuration before it updates: when
\* update returns an error, set_config returns Update and the new public
\* values stay in config.yml, so that config() returns them; when the
\* current configuration cannot be read, nothing is written and update is
\* not run.  update is taken to fail when it returns an error.
C28_SetConfigIsNotAtomic ==
    [][ last'.op = "set_config" =>
          /\ last'.trace = <<>> =>
                /\ IsErr(last'.res)
                /\ UNCHANGED <<fsVars, created>>
          /\ last'.trace # <<>> => last'.trace[1].step = "write"
          /\ UpdateFailed(last'.trace) =>
                /\ last'.res = Err("Update", "")
                /\ last'.trace[1] = Step("write", "config.yml", "ok")
                /\ IsOk(config(configFile', TRUE).res)
                /\ config(configFile', TRUE).value = last'.arg ]_vars

\* a set_config that returned Update and left archive_older, which the
\* repository was not created with, in config.yml
C28_Witness ==
    /\ last.op = "set_config"
    /\ last.res = Err("Update", "")
    /\ UpdateFailed(last.trace)
    /\ IsSome(last.arg.archive_older)
    /\ "archive_older" \in DOMAIN configFile
    /\ "archive_older" \notin DOMAIN InitDoc(TRUE)
    /\ config(configFile, TRUE).value = last.arg

====
